---- MODULE Spec2Model ----
(***************************************************************************)
(* Chapter-boundary detection of the audiobooksmith pipeline:              *)
(*   - the camelCase title normalizers (V7 PERFECT, V13.1, V13 production) *)
(*   - SmartChapterSplitterV7 (TOC extraction, body location, splitting)   *)
(*   - HybridChapterSplitter (TOC, location, quality validation, result)   *)
(*   - the V11 splitter, the simple splitter and the V9 numbering          *)
(* A text is a sequence of lines; a character is a one-character string.   *)
(***************************************************************************)
EXTENDS Integers, Sequences, FiniteSets, TLC

VARIABLES
    pc,                  \* which operation has run: "init" before any
    title,               \* input of the title normalizers (a sequence of characters)
    normalized,          \* output of the title normalizer that ran
    text,                \* the extracted text of the book, a sequence of lines
    min_chapter_length,  \* the splitters' constructor parameter
    toc_chapters,        \* the TOC entries the splitter extracted
    chapter_positions,   \* the located entries, sorted by position
    chapters,            \* the chapters the splitter returned
    user_chapter_list,   \* the titles the caller of extract_chapters supplied
    extraction_method,   \* the PDF library whose text the hybrid splitter used
    readable,            \* the PDF libraries that read the file when extract_chapters ran
    located_chapters,    \* what _locate_and_validate_chapters returned
    validated_chapters,  \* what _validate_chapter_quality returned
    result,              \* status, count and accuracy of the result of extract_chapters
    validation,          \* what the content classifier of the V8 pipeline answered
    tracker,             \* the calls the V8 pipeline made on its progress tracker, in order
    pdf,                 \* the document of AdvancedEpilogueDetector: its pages and its outline
    openai,              \* whether the OpenAI client is importable, and what the model answers
    epilogue,            \* what AdvancedEpilogueDetector.detect returned
    cache,               \* the files of the directory of AIAnalysisCache, by cache key
    stored,              \* the analysis last saved by AIAnalysisCache.set, by file content
    cached,              \* the last call of AIAnalysisCache.get and what it returned
    book_analysis,       \* the argument of ParallelVoiceMatcher.match_voices
    futures,             \* the state of the task of each voice profile in the executor
    completed,           \* the voice profiles in the order their tasks finished
    voice_matches,       \* what match_voices returned
    raw_excerpt,         \* the excerpt given to prepare_voice_sample_text
    model_response,      \* what the model call of prepare_voice_sample_text produced
    max_length,          \* the length limit given to prepare_voice_sample_text
    prepared_text        \* what prepare_voice_sample_text returned

vars == <<pc, title, normalized, text, min_chapter_length, toc_chapters, chapter_positions, chapters,
          user_chapter_list, extraction_method, readable, located_chapters, validated_chapters, result, validation,
          tracker, pdf, openai, epilogue, cache, stored, cached, book_analysis, futures, completed, voice_matches,
          raw_excerpt, model_response, max_length, prepared_text>>

hybridVars == <<user_chapter_list, extraction_method, readable, located_chapters, validated_chapters, result>>

docVars == <<text, min_chapter_length, toc_chapters, chapter_positions, chapters, hybridVars, validation>>

\* the variables of AdvancedEpilogueDetector, AIAnalysisCache, ParallelVoiceMatcher and
\* prepare_voice_sample_text
epilogueVars == <<pdf, openai, epilogue>>

cacheVars == <<cache, stored, cached>>

voiceVars == <<book_analysis, futures, completed, voice_matches>>

sampleVars == <<raw_excerpt, model_response, max_length, prepared_text>>

moduleVars == <<epilogueVars, cacheVars, voiceVars, sampleVars>>

\* the variables of the chapter splitters and of the V8 pipeline
bookVars == <<title, normalized, docVars, tracker>>

(***************************************************************************)
(* Characters                                                              *)
(***************************************************************************)
UpperSeq == <<"A", "B", "C", "D", "E", "F", "G", "H", "I", "J", "K", "L", "M", "N", "O", "P", "Q", "R", "S", "T", "U", "V", "W", "X", "Y", "Z">>

LowerSeq == <<"a", "b", "c", "d", "e", "f", "g", "h", "i", "j", "k", "l", "m", "n", "o", "p", "q", "r", "s", "t", "u", "v", "w", "x", "y", "z">>

DigitSeq == <<"0", "1", "2", "3", "4", "5", "6", "7", "8", "9">>

Range(s) == {s[i] : i \in DOMAIN s}

UpperSet == Range(UpperSeq)

LowerSet == Range(LowerSeq)

DigitSet == Range(DigitSeq)

IsUpper(c) == c \in UpperSet

IsLower(c) == c \in LowerSet

IsDigit(c) == c \in DigitSet

IsAlpha(c) == IsUpper(c) \/ IsLower(c)

IsSpace(c) == c \in {" ", "\n", "\t"}

LowerOf == [c \in UpperSet |-> LowerSeq[CHOOSE i \in DOMAIN UpperSeq : UpperSeq[i] = c]]

\* str.lower() of one character
ToLower(c) == IF c \in UpperSet THEN LowerOf[c] ELSE c

LowerStr(s) == [i \in DOMAIN s |-> ToLower(s[i])]

\* [a-z] and [A-Z] of a regular expression; under re.IGNORECASE either class
\* matches every letter
ReLower(c, ic) == IF ic THEN IsAlpha(c) ELSE IsLower(c)

ReUpper(c, ic) == IF ic THEN IsAlpha(c) ELSE IsUpper(c)

\* a literal of a regular expression against a piece of text of the same length
ReLiteral(piece, word, ic) == IF ic THEN LowerStr(piece) = LowerStr(word) ELSE piece = word

(***************************************************************************)
(* Title normalizers                                                       *)
(***************************************************************************)
\* re.sub(r'([A-Z])([A-Z][a-z])', r'\1 \2', text), from character i on
RECURSIVE SingleUpperSub(_, _)
SingleUpperSub(t, i) ==
    IF i > Len(t) THEN <<>>
    ELSE IF i + 2 <= Len(t) /\ IsUpper(t[i]) /\ IsUpper(t[i + 1]) /\ IsLower(t[i + 2])
         THEN <<t[i], " ", t[i + 1], t[i + 2]>> \o SingleUpperSub(t, i + 3)
         ELSE <<t[i]>> \o SingleUpperSub(t, i + 1)

IntoStepSkipped(t) == t

\* if text.lower().startswith('into') and len(text) > 4 and text[4].isupper()
IntoStep(t) ==
    IF Len(t) > 4 /\ LowerStr(SubSeq(t, 1, 4)) = <<"i", "n", "t", "o">> /\ IsUpper(t[5])
    THEN SubSeq(t, 1, 4) \o <<" ">> \o SubSeq(t, 5, Len(t))
    ELSE t

\* re.sub(r'([a-z])(conn)([A-Z])', r'\1 <repl> \3', text[, flags=re.IGNORECASE]),
\* from character i on; keep = TRUE writes the matched group \2 instead of repl
RECURSIVE ConnectorSub(_, _, _, _, _, _)
ConnectorSub(t, i, conn, repl, ic, keep) ==
    IF i > Len(t) THEN <<>>
    ELSE LET n == Len(conn) IN
         IF /\ i + n + 1 <= Len(t)
            /\ ReLower(t[i], ic)
            /\ ReLiteral(SubSeq(t, i + 1, i + n), conn, ic)
            /\ ReUpper(t[i + n + 1], ic)
         THEN <<t[i], " ">> \o (IF keep THEN SubSeq(t, i + 1, i + n) ELSE repl)
                  \o <<" ", t[i + n + 1]>> \o ConnectorSub(t, i + n + 2, conn, repl, ic, keep)
         ELSE <<t[i]>> \o ConnectorSub(t, i + 1, conn, repl, ic, keep)

\* re.sub('(?i)old', new, text), from character i on
RECURSIVE PlainSub(_, _, _, _)
PlainSub(t, i, old, new) ==
    IF i > Len(t) THEN <<>>
    ELSE IF i + Len(old) - 1 <= Len(t) /\ ReLiteral(SubSeq(t, i, i + Len(old) - 1), old, TRUE)
         THEN new \o PlainSub(t, i + Len(old), old, new)
         ELSE <<t[i]>> \o PlainSub(t, i + 1, old, new)

\* re.sub(r'([a-z])([A-Z])', r'\1 \2', text), from character i on
RECURSIVE GeneralCamelSub(_, _)
GeneralCamelSub(t, i) ==
    IF i > Len(t) THEN <<>>
    ELSE IF i + 1 <= Len(t) /\ IsLower(t[i]) /\ IsUpper(t[i + 1])
         THEN <<t[i], " ", t[i + 1]>> \o GeneralCamelSub(t, i + 2)
         ELSE <<t[i]>> \o GeneralCamelSub(t, i + 1)

\* str.strip()
RECURSIVE LStrip(_)
LStrip(t) == IF t # <<>> /\ IsSpace(t[1]) THEN LStrip(Tail(t)) ELSE t

RECURSIVE RStrip(_)
RStrip(t) == IF t # <<>> /\ IsSpace(t[Len(t)]) THEN RStrip(SubSeq(t, 1, Len(t) - 1)) ELSE t

Strip(t) == RStrip(LStrip(t))

\* re.sub(r'\s+', ' ', text), from character i on
RECURSIVE CollapseSpaces(_, _)
CollapseSpaces(t, i) ==
    IF i > Len(t) THEN <<>>
    ELSE IF IsSpace(t[i])
         THEN IF i > 1 /\ IsSpace(t[i - 1]) THEN CollapseSpaces(t, i + 1)
              ELSE <<" ">> \o CollapseSpaces(t, i + 1)
         ELSE <<t[i]>> \o CollapseSpaces(t, i + 1)

\* the connector tables of the three normalizers, in the order the code applies them
W_of == <<"o", "f">>
W_the == <<"t", "h", "e">>
W_and == <<"a", "n", "d">>
W_for == <<"f", "o", "r">>
W_in == <<"i", "n">>
W_a == <<"a">>
W_to == <<"t", "o">>
W_at == <<"a", "t">>
W_on == <<"o", "n">>
W_upon == <<"u", "p", "o", "n">>
W_with == <<"w", "i", "t", "h">>
W_my == <<"m", "y">>

Compound(a, b) == [old |-> a \o b, new |-> a \o <<" ">> \o b]

PerfectCompounds == <<Compound(W_of, W_the), Compound(W_in, W_the), Compound(W_and, W_the), Compound(W_for, W_the), Compound(W_to, W_the), Compound(W_at, W_the), Compound(W_on, W_the), Compound(W_upon, W_the)>>

PerfectConnectors == <<W_of, W_the, W_and, W_for, W_in, W_a, W_to, W_at, W_on, W_upon>>

V13_1Compounds == <<Compound(W_of, W_the), Compound(W_in, W_the), Compound(W_on, W_the), Compound(W_to, W_the), Compound(W_for, W_the), Compound(W_and, W_the), Compound(W_of, W_my), Compound(W_in, W_my), Compound(W_to, W_my)>>

V13_1Connectors == <<W_of, W_the, W_and, W_for, W_in, W_a, W_to, W_upon, W_with>>

V13ProdCompounds == <<Compound(W_of, W_the), Compound(W_in, W_the), Compound(W_to, W_the), Compound(W_for, W_the), Compound(W_and, W_the), Compound(W_on, W_the)>>

V13ProdConnectors == <<W_of, W_the, W_and, W_for, W_in, W_a, W_to, W_upon>>

\* for compound, replacement in compound_connectors: text = re.sub(([a-z])(compound)([A-Z]), ..., IGNORECASE)
RECURSIVE PerfectCompoundLoop(_, _)
PerfectCompoundLoop(t, k) ==
    IF k > Len(PerfectCompounds) THEN t
    ELSE PerfectCompoundLoop(ConnectorSub(t, 1, PerfectCompounds[k].old, PerfectCompounds[k].new, TRUE, FALSE), k + 1)

\* for connector in connectors: text = re.sub(([a-z])(connector)([A-Z]), r'\1 connector \3', text)
RECURSIVE PerfectConnectorLoop(_, _)
PerfectConnectorLoop(t, k) ==
    IF k > Len(PerfectConnectors) THEN t
    ELSE PerfectConnectorLoop(ConnectorSub(t, 1, PerfectConnectors[k], PerfectConnectors[k], FALSE, FALSE), k + 1)

\* SmartChapterSplitterV7.split_camel_case_perfect
split_camel_case_perfect(t) ==
    GeneralCamelSub(PerfectConnectorLoop(PerfectCompoundLoop(IntoStep(SingleUpperSub(t, 1)), 1), 1), 1)

\* for old, new in compound_connectors: text = re.sub(f'(?i){old}', new, text)
RECURSIVE PlainCompoundLoop(_, _, _)
PlainCompoundLoop(t, table, k) ==
    IF k > Len(table) THEN t
    ELSE PlainCompoundLoop(PlainSub(t, 1, table[k].old, table[k].new), table, k + 1)

\* for connector in connectors: text = re.sub(([a-z])(connector)([A-Z]), r'\1 \2 \3', text, flags=re.IGNORECASE)
RECURSIVE IgnoreCaseConnectorLoop(_, _, _)
IgnoreCaseConnectorLoop(t, table, k) ==
    IF k > Len(table) THEN t
    ELSE IgnoreCaseConnectorLoop(ConnectorSub(t, 1, table[k], table[k], TRUE, TRUE), table, k + 1)

\* split_camel_case_v7 of audiobook_processor_v13_1_universal.py
split_camel_case_v7(t) ==
    IF t = <<>> THEN t
    ELSE Strip(CollapseSpaces(GeneralCamelSub(IgnoreCaseConnectorLoop(PlainCompoundLoop(IntoStep(SingleUpperSub(t, 1)), V13_1Compounds, 1), V13_1Connectors, 1), 1), 1))

\* SmartChapterSplitterV7.split_camel_case of audiobook_processor_v13_production.py
split_camel_case(t) ==
    IF t = <<>> THEN t
    ELSE Strip(CollapseSpaces(GeneralCamelSub(IgnoreCaseConnectorLoop(PlainCompoundLoop(SingleUpperSub(IntoStep(t), 1), V13ProdCompounds, 1), V13ProdConnectors, 1), 1), 1))

(***************************************************************************)
(* The titles the normalizers are run on: the documented examples and      *)
(* every concatenation of at most MaxTitleWords words of TitleWords        *)
(***************************************************************************)
MaxTitleWords == 2

OnceUponaTime == <<"O", "n", "c", "e", "U", "p", "o", "n", "a", "T", "i", "m", "e">>
IntoAdulthood == <<"I", "n", "t", "o", "A", "d", "u", "l", "t", "h", "o", "o", "d">>
CarolOfTheBells == <<"C", "a", "r", "o", "l", "O", "f", "T", "h", "e", "B", "e", "l", "l", "s">>
MyFirstMisadventure == <<"M", "y", "F", "i", "r", "s", "t", "M", "i", "s", "a", "d", "v", "e", "n", "t", "u", "r", "e">>
ANewFamily == <<"A", "N", "e", "w", "F", "a", "m", "i", "l", "y">>

Once_Upon_a_Time == <<"O", "n", "c", "e", " ", "U", "p", "o", "n", " ", "a", " ", "T", "i", "m", "e">>
Into_Adulthood == <<"I", "n", "t", "o", " ", "A", "d", "u", "l", "t", "h", "o", "o", "d">>
Carol_of_the_Bells == <<"C", "a", "r", "o", "l", " ", "o", "f", " ", "t", "h", "e", " ", "B", "e", "l", "l", "s">>
My_First_Misadventure == <<"M", "y", " ", "F", "i", "r", "s", "t", " ", "M", "i", "s", "a", "d", "v", "e", "n", "t", "u", "r", "e">>
A_New_Family == <<"A", " ", "N", "e", "w", " ", "F", "a", "m", "i", "l", "y">>

ExampleTitles == {OnceUponaTime, IntoAdulthood, CarolOfTheBells, MyFirstMisadventure, ANewFamily}

TitleWords == {<<"O", "n", "c", "e">>, <<"U", "p", "o", "n">>, <<"a">>, <<"T", "i", "m", "e">>, <<"I", "n", "t", "o">>, <<"o", "f">>, <<"O", "f">>, <<"T", "h", "e">>, <<"A">>, <<"M", "a", "n">>}

RECURSIVE WordConcats(_)
WordConcats(n) ==
    IF n = 0 THEN {<<>>}
    ELSE LET shorter == WordConcats(n - 1) IN shorter \cup {s \o w : s \in shorter, w \in TitleWords}

TitleInputs == ExampleTitles \cup (WordConcats(MaxTitleWords) \ {<<>>})

\* no answer of the content classifier yet
NoValidation == [response |-> "none", is_suitable |-> FALSE]

NoResult == [status |-> "none", error_type |-> "none", count |-> 0, accuracy |-> <<0, 1>>, needs_review |-> FALSE]

\* nothing of the detector, the cache, the voice matcher or the sample preparation has run
IdleModules ==
    /\ pdf = <<>> /\ openai = <<>> /\ epilogue = <<>>
    /\ cache = <<>> /\ stored = <<>> /\ cached = <<>>
    /\ book_analysis = <<>> /\ futures = <<>> /\ completed = <<>> /\ voice_matches = <<>>
    /\ raw_excerpt = <<>> /\ model_response = <<>> /\ max_length = 0 /\ prepared_text = <<>>


(***************************************************************************)
(* Specification of the normalizers: one title, normalized once            *)
(***************************************************************************)
InitCamel ==
    /\ pc = "init"
    /\ title \in TitleInputs
    /\ normalized = <<>>
    /\ text = <<>>
    /\ min_chapter_length = 0
    /\ toc_chapters = <<>>
    /\ chapter_positions = <<>>
    /\ chapters = <<>>
    /\ user_chapter_list = <<>>
    /\ extraction_method = "none"
    /\ readable = {}
    /\ located_chapters = <<>>
    /\ validated_chapters = <<>>
    /\ result = NoResult
    /\ validation = NoValidation
    /\ tracker = <<>>
    /\ IdleModules

NormalizePerfect ==
    /\ pc = "init"
    /\ pc' = "perfect"
    /\ normalized' = split_camel_case_perfect(title)
    /\ UNCHANGED <<title, docVars, tracker, moduleVars>>

NormalizeV13_1 ==
    /\ pc = "init"
    /\ pc' = "v13_1"
    /\ normalized' = split_camel_case_v7(title)
    /\ UNCHANGED <<title, docVars, tracker, moduleVars>>

NormalizeV13Prod ==
    /\ pc = "init"
    /\ pc' = "v13prod"
    /\ normalized' = split_camel_case(title)
    /\ UNCHANGED <<title, docVars, tracker, moduleVars>>

NextCamel == NormalizePerfect \/ NormalizeV13_1 \/ NormalizeV13Prod

SpecCamel == InitCamel /\ [][NextCamel]_vars

\* C7: split_camel_case_perfect maps the five documented titles to their
\* spaced forms exactly, with no extra or missing space.
C7_PerfectExamples ==
    pc = "perfect" =>
        /\ title = OnceUponaTime => normalized = Once_Upon_a_Time
        /\ title = IntoAdulthood => normalized = Into_Adulthood
        /\ title = CarolOfTheBells => normalized = Carol_of_the_Bells
        /\ title = MyFirstMisadventure => normalized = My_First_Misadventure
        /\ title = ANewFamily => normalized = A_New_Family

C7_Witness == pc = "perfect" /\ title = IntoAdulthood /\ normalized = Into_Adulthood

\* C8: the V13.1 and V13 production normalizers split a single connector only
\* between a lowercase and an uppercase letter, so their documented examples
\* hold: OnceUponaTime, MyFirstMisadventure and IntoAdulthood map to their
\* spaced forms.
C8_V13Examples ==
    pc \in {"v13_1", "v13prod"} =>
        /\ title = OnceUponaTime => normalized = Once_Upon_a_Time
        /\ title = MyFirstMisadventure => normalized = My_First_Misadventure
        /\ title = IntoAdulthood => normalized = Into_Adulthood

(***************************************************************************)
(* Text.  A text is "\n".join of its lines plus a final newline.  A line   *)
(* is either written out (s, its characters) or a line of prose: nw words  *)
(* of wl characters separated by single spaces, the first sent of them     *)
(* ending in a full stop; distinct says whether the words of the line are  *)
(* pairwise different.  The letters of prose are lowercase and occur in no *)
(* title, number or marker.  at is the offset of the line's first          *)
(* character and len its length without the newline.                       *)
(***************************************************************************)
Str(s) == [s |-> s, nw |-> 0, wl |-> 0, sent |-> 0, distinct |-> TRUE]

Prose(nw, wl, sent, distinct) == [s |-> <<>>, nw |-> nw, wl |-> wl, sent |-> sent, distinct |-> distinct]

LineLen(l) == IF l.nw > 0 THEN l.nw * (l.wl + 1) - 1 ELSE Len(l.s)

RECURSIVE Place(_, _)
Place(lines, at) ==
    IF lines = <<>> THEN <<>>
    ELSE LET l == lines[1] IN
         <<[at |-> at, len |-> LineLen(l), s |-> l.s, nw |-> l.nw, wl |-> l.wl, sent |-> l.sent, distinct |-> l.distinct]>>
             \o Place(Tail(lines), at + LineLen(l) + 1)

Min(a, b) == IF a < b THEN a ELSE b

Max(a, b) == IF a > b THEN a ELSE b

\* len(self.text)
TextLen == IF text = <<>> THEN 0 ELSE text[Len(text)].at + text[Len(text)].len + 1

IsProse(i) == text[i].nw > 0

IsBlank(i) == text[i].nw = 0 /\ Strip(text[i].s) = <<>>

IsWritten(i) == text[i].nw = 0 /\ Strip(text[i].s) # <<>>

LineOf(p) == CHOOSE i \in DOMAIN text : text[i].at <= p /\ p <= text[i].at + text[i].len

ProseLetters == <<"x", "z", "q", "j", "k", "v", "w", "f", "m">>

\* the j-th letter of the k-th word of a line whose words are pairwise different:
\* the word spells k in the letters of prose, lowest digit first
RECURSIVE ProseLetter(_, _)
ProseLetter(k, j) ==
    IF j = 0 THEN ProseLetters[(k % Len(ProseLetters)) + 1] ELSE ProseLetter(k \div Len(ProseLetters), j - 1)

ProseChar(l, o) ==
    LET k == o \div (l.wl + 1)
        j == o % (l.wl + 1)
    IN  IF j = l.wl THEN " "
        ELSE IF j = l.wl - 1 /\ k < l.sent THEN "."
        ELSE IF l.distinct THEN ProseLetter(k, j) ELSE "x"

\* self.text[p]
CharAt(p) ==
    LET i == LineOf(p)
        o == p - text[i].at
    IN  IF o = text[i].len THEN "\n"
        ELSE IF IsProse(i) THEN ProseChar(text[i], o) ELSE text[i].s[o + 1]

\* the first line after line i that is not blank, 0 if there is none
RECURSIVE NextNonBlank(_)
NextNonBlank(i) ==
    IF i + 1 > Len(text) THEN 0
    ELSE IF IsBlank(i + 1) THEN NextNonBlank(i + 1) ELSE i + 1

RECURSIVE PrevNonBlank(_)
PrevNonBlank(i) ==
    IF i - 1 < 1 THEN 0
    ELSE IF IsBlank(i - 1) THEN PrevNonBlank(i - 1) ELSE i - 1

\* len(s.split()) of a written piece of text
WordsOfChars(s, i) == Cardinality({k \in i..Len(s) : ~IsSpace(s[k]) /\ (k = 1 \/ IsSpace(s[k - 1]))})

\* the characters of s from the i-th on that are in cs
CountChar(s, i, cs) == Cardinality({k \in i..Len(s) : s[k] \in cs})

\* the words of line i that have a character at an offset in [a, b) of the line
WordsInLine(i, a, b) ==
    LET l == text[i] IN
    IF a >= b THEN 0
    ELSE IF l.nw = 0 THEN WordsOfChars(SubSeq(l.s, a + 1, b), 1)
    ELSE LET klo == IF a < l.wl THEN 0 ELSE ((a - l.wl) \div (l.wl + 1)) + 1
             khi == Min((b - 1) \div (l.wl + 1), l.nw - 1)
         IN  Max(0, khi - klo + 1)

\* the '.', '!' and '?' of line i at an offset in [a, b) of the line
SentencesInLine(i, a, b) ==
    LET l == text[i] IN
    IF a >= b THEN 0
    ELSE IF l.nw = 0 THEN CountChar(SubSeq(l.s, a + 1, b), 1, {".", "!", "?"})
    ELSE LET klo == IF a <= l.wl - 1 THEN 0 ELSE ((a - l.wl) \div (l.wl + 1)) + 1
             khi == Min(IF b < l.wl THEN -1 ELSE (b - l.wl) \div (l.wl + 1), l.sent - 1)
         IN  Max(0, khi - klo + 1)

RECURSIVE SumLines(_, _, _, _)
SumLines(i, lo, hi, words) ==
    IF i > Len(text) \/ text[i].at >= hi THEN 0
    ELSE LET a == Max(lo - text[i].at, 0)
             b == Min(hi - text[i].at, text[i].len)
         IN  (IF words THEN WordsInLine(i, a, b) ELSE SentencesInLine(i, a, b)) + SumLines(i + 1, lo, hi, words)

\* len(self.text[lo:hi].split())
WordsIn(lo, hi) == IF lo >= hi \/ lo >= TextLen THEN 0 ELSE SumLines(LineOf(lo), lo, Min(hi, TextLen), TRUE)

\* the sentence terminators of self.text[lo:hi]
SentencesIn(lo, hi) == IF lo >= hi \/ lo >= TextLen THEN 0 ELSE SumLines(LineOf(lo), lo, Min(hi, TextLen), FALSE)

\* the offset of the first character of self.text[lo:hi] that is no white space, hi if none
RECURSIVE FirstNonSpace(_, _)
FirstNonSpace(lo, hi) ==
    IF lo >= hi THEN hi
    ELSE IF IsSpace(CharAt(lo)) THEN FirstNonSpace(lo + 1, hi) ELSE lo

\* one past the offset of the last character of self.text[lo:hi] that is no white space, lo if none
RECURSIVE LastNonSpace(_, _)
LastNonSpace(lo, hi) ==
    IF lo >= hi THEN lo
    ELSE IF IsSpace(CharAt(hi - 1)) THEN LastNonSpace(lo, hi - 1) ELSE hi

\* len(self.text[lo:hi].strip())
StrippedLen(lo, hi) ==
    LET h == Min(hi, TextLen)
        a == FirstNonSpace(lo, h)
    IN  IF a >= h THEN 0 ELSE LastNonSpace(a, h) - a

\* the least of the indices S, none if there is none
LeastIndex(S, none) == IF S = {} THEN none ELSE CHOOSE k \in S : \A o \in S : k <= o

\* the number of leading elements of s, from index i on, that are in cs
RunLen(s, i, cs) == IF i > Len(s) THEN 0 ELSE LeastIndex({k \in i..Len(s) : s[k] \notin cs}, Len(s) + 1) - i

\* the number of trailing digits of s
RECURSIVE DigitSuffixLen(_)
DigitSuffixLen(s) ==
    IF s # <<>> /\ IsDigit(s[Len(s)]) THEN 1 + DigitSuffixLen(SubSeq(s, 1, Len(s) - 1)) ELSE 0

IsPrefix(p, s, ic) == Len(p) <= Len(s) /\ ReLiteral(SubSeq(s, 1, Len(p)), p, ic)

IsSuffix(p, s, ic) == Len(p) <= Len(s) /\ ReLiteral(SubSeq(s, Len(s) - Len(p) + 1, Len(s)), p, ic)

\* str.split() of a written piece of text
RECURSIVE SplitWords(_)
SplitWords(s) ==
    LET t == LStrip(s) IN
    IF t = <<>> THEN <<>>
    ELSE LET w == (CHOOSE n \in 1..Len(t) : (n = Len(t) \/ IsSpace(t[n + 1])) /\ \A k \in 1..n : ~IsSpace(t[k])) IN
         <<SubSeq(t, 1, w)>> \o SplitWords(SubSeq(t, w + 1, Len(t)))

(***************************************************************************)
(* SmartChapterSplitterV7 (smart_chapter_splitter_v7_perfect.py)           *)
(***************************************************************************)
\* self.toc_end = 3000
toc_end == 3000

\* min_chapter_length: int = 500
DefaultMinChapterLength == 500

\* text_after = self.text[match.end():match.end()+100]
HeaderWindow == 100

NoEntry == [number |-> <<>>, title |-> <<>>, title_with_spaces |-> <<>>, title_normalized |-> <<>>, display |-> <<>>]

\* SmartChapterSplitterV7.normalize_for_comparison
normalize_for_comparison(t) == Strip(CollapseSpaces(LowerStr(t), 1))

\* r'^(\d+)\s+([A-Z][a-zA-Z]+(?:[A-Z][a-zA-Z]+)*)\s*\d*$' when nums = digits, paged = TRUE
\* r'^([IVX]+)\s+([A-Z][a-zA-Z]+(?:[A-Z][a-zA-Z]+)*)\s*$' when nums = {I, V, X}, paged = FALSE
\* the groups (number, title) of the match on line ln, <<>> if it does not match
NumberedTocMatch(ln, nums, paged) ==
    LET d == RunLen(ln, 1, nums)
        w == RunLen(ln, d + 1, {" ", "\t"})
        t == RunLen(ln, d + w + 1, UpperSet \cup LowerSet)
        w2 == RunLen(ln, d + w + t + 1, {" ", "\t"})
        d2 == IF paged THEN RunLen(ln, d + w + t + w2 + 1, DigitSet) ELSE 0
    IN  IF d >= 1 /\ w >= 1 /\ t >= 2 /\ IsUpper(ln[d + w + 1]) /\ d + w + t + w2 + d2 = Len(ln)
        THEN <<SubSeq(ln, 1, d), SubSeq(ln, d + w + 1, d + w + t)>>
        ELSE <<>>

W_Prologue == <<"P", "r", "o", "l", "o", "g", "u", "e">>

W_Epilogue == <<"E", "p", "i", "l", "o", "g", "u", "e">>

\* r'^(Prologue|Epilogue)\s*\d*$': the group of the match on line ln, <<>> if none
\* \s*\d*$ after a name at the start of line ln: w is the white space after the name
SpecialRest(ln, name, w) == Len(name) + w + RunLen(ln, Len(name) + w + 1, DigitSet) = Len(ln)

SpecialNamed(ln, name) ==
    IF name # <<>> /\ SpecialRest(ln, name, RunLen(ln, Len(name) + 1, {" ", "\t"})) THEN name ELSE <<>>

SpecialTocMatch(ln) ==
    SpecialNamed(ln, IF IsPrefix(W_Prologue, ln, FALSE) THEN W_Prologue
                     ELSE IF IsPrefix(W_Epilogue, ln, FALSE) THEN W_Epilogue ELSE <<>>)

\* the dictionary appended for a match of two groups; spaced is title_with_spaces
EntryOf(number, raw, spaced) ==
    [number |-> number, title |-> raw, title_with_spaces |-> spaced,
     title_normalized |-> normalize_for_comparison(spaced), display |-> number \o <<" ">> \o spaced]

NumberedEntry(g) == EntryOf(g[1], g[2], split_camel_case_perfect(g[2]))

\* the dictionary appended for a match of one group
SpecialEntry(name) ==
    [number |-> <<>>, title |-> name, title_with_spaces |-> name,
     title_normalized |-> normalize_for_comparison(name), display |-> name]

\* the entry for the matches of the three patterns on a line: the first pattern
\* that matches decides
FirstPatternEntry(arabic, roman, special) ==
    IF arabic # <<>> THEN NumberedEntry(arabic)
    ELSE IF roman # <<>> THEN NumberedEntry(roman)
    ELSE IF special # <<>> THEN SpecialEntry(special)
    ELSE NoEntry

\* the entry of one stripped line of the TOC text: the first of the three patterns
\* that matches decides, NoEntry if none does
TocLineEntry(ln) ==
    FirstPatternEntry(NumberedTocMatch(ln, DigitSet, TRUE), NumberedTocMatch(ln, {"I", "V", "X"}, FALSE),
                      SpecialTocMatch(ln))

\* the characters of line i that lie in self.text[:limit], stripped; of a line of
\* prose, which matches no pattern of a TOC, one letter stands for all
LineBefore(i, limit) ==
    IF IsProse(i) THEN <<"x">> ELSE Strip(SubSeq(text[i].s, 1, Min(text[i].len, limit - text[i].at)))

\* chapters.append(...) for the entry of a line, nothing for NoEntry
EntryList(e) == IF e = NoEntry THEN <<>> ELSE <<e>>

\* SmartChapterSplitterV7.extract_toc_chapters, from line i on
RECURSIVE extract_toc_chapters(_)
extract_toc_chapters(i) ==
    IF i > Len(text) \/ text[i].at >= toc_end THEN <<>>
    ELSE EntryList(TocLineEntry(LineBefore(i, toc_end))) \o extract_toc_chapters(i + 1)

\* the characters of line i from offset a of the text to offset hi or the end of the
\* line, stripped; of a line of prose one letter stands for all
LineFrom(i, a, hi) ==
    IF IsProse(i) THEN <<"x">>
    ELSE Strip(SubSeq(text[i].s, a - text[i].at + 1, Min(text[i].at + text[i].len, hi) - text[i].at))

\* the first line of self.text[a:hi], which starts with a character that is no white space
FirstLineOf(a, hi) == IF a >= hi THEN <<>> ELSE LineFrom(LineOf(a), a, hi)

\* the first line of text_after.strip(), stripped, for text_after = self.text[from:from+100]
FirstLineAfter(from) ==
    FirstLineOf(FirstNonSpace(from, Min(from + HeaderWindow, TextLen)), Min(from + HeaderWindow, TextLen))

\* SmartChapterSplitterV7.is_page_header(self.text[from:from+100]):
\* uppercase_count / (uppercase_count + lowercase_count + 0.001) > 0.7
MostlyUpper(uppercase_count, lowercase_count) ==
    uppercase_count > 0 /\ 3000 * uppercase_count > 7000 * lowercase_count + 7

IsHeaderLine(first_line) == MostlyUpper(CountChar(first_line, 1, UpperSet), CountChar(first_line, 1, LowerSet))

is_page_header(from) == IsHeaderLine(FirstLineAfter(from))

NoMatch == [start |-> -1, end |-> -1, ok |-> FALSE, grouped |-> FALSE]

\* r'\s+'.join(words) matched at offset off of line j, word k on: one past the end of
\* the match, -1 if it does not match
RECURSIVE FlexibleEnd(_, _, _, _)
FlexibleEnd(j, off, words, k) ==
    LET s == text[j].s
        w == words[k]
    IN  IF ~IsWritten(j) \/ off + Len(w) > Len(s) \/ ~ReLiteral(SubSeq(s, off + 1, off + Len(w)), w, TRUE) THEN -1
        ELSE IF k = Len(words) THEN text[j].at + off + Len(w)
        ELSE LET sp == RunLen(s, off + Len(w) + 1, {" ", "\t"}) IN
             IF off + Len(w) + sp = Len(s)
             THEN IF NextNonBlank(j) = 0 THEN -1 ELSE FlexibleEnd(NextNonBlank(j), 0, words, k + 1)
             ELSE IF sp = 0 THEN -1 ELSE FlexibleEnd(j, off + Len(w) + sp, words, k + 1)

\* The matches of r'(?:\d+\s*\n\s*)?{number}\s*\n\s*{title}' (re.IGNORECASE) whose
\* number ends line i: the number ends a line, the title starts the next line that is
\* not blank.  strategy 1: title = re.escape(title_with_spaces); strategy 2:
\* ([^\n]+), ok says whether its normal form is title_normalized; strategy 3: the
\* words of the title joined by \s+.  The optional group matches when the number is
\* the whole line and the line before ends in digits; the match then starts at those
\* digits (grouped), unless that lies before cursor.
\* where the optional group (?:\d+\s*\n\s*)? starts when the number is the whole of
\* line i and h is the line before that is not blank, -1 if it does not match
GroupStart(e, i, h) ==
    IF Len(text[i].s) = Len(e.number) /\ h # 0 /\ IsWritten(h) /\ DigitSuffixLen(text[h].s) > 0
    THEN text[h].at + text[h].len - DigitSuffixLen(text[h].s) ELSE -1

\* one past the end of the title matched at the start of line j, -1 if it does not match
TitleEnd(e, strategy, j) ==
    IF j = 0 THEN -1
    ELSE IF strategy = 1
         THEN IF IsWritten(j) /\ IsPrefix(e.title_with_spaces, text[j].s, TRUE)
              THEN text[j].at + Len(e.title_with_spaces) ELSE -1
    ELSE IF strategy = 2 THEN text[j].at + text[j].len
    ELSE FlexibleEnd(j, 0, SplitWords(e.title_with_spaces), 1)

\* strategy 2: if self.normalize_for_comparison(found_title) == chapter_info['title_normalized']
TitleOk(e, strategy, j) ==
    strategy # 2 \/ (j # 0 /\ IsWritten(j) /\ normalize_for_comparison(text[j].s) = e.title_normalized)

\* the match that starts at group or at plain and ends at end, of the part of the
\* text from cursor on
MatchFrom(group, plain, end, ok, cursor) ==
    IF end = -1 THEN NoMatch
    ELSE IF group >= cursor THEN [start |-> group, end |-> end, ok |-> ok, grouped |-> TRUE]
    ELSE IF plain >= cursor THEN [start |-> plain, end |-> end, ok |-> ok, grouped |-> FALSE]
    ELSE NoMatch

MatchOnLine(e, strategy, i, cursor) ==
    IF ~IsWritten(i) \/ ~IsSuffix(e.number, text[i].s, TRUE) THEN NoMatch
    ELSE MatchFrom(GroupStart(e, i, PrevNonBlank(i)), text[i].at + text[i].len - Len(e.number),
                   TitleEnd(e, strategy, NextNonBlank(i)), TitleOk(e, strategy, NextNonBlank(i)), cursor)

\* of the matches ms the leftmost, and of two that start together the one that takes
\* the optional group
LeftmostMatch(ms) ==
    IF ms = {} THEN NoMatch
    ELSE CHOOSE m \in ms : \A o \in ms : m.start < o.start \/ (m.start = o.start /\ (m.grouped \/ ~o.grouped))

\* the next match re.finditer yields from offset cursor on
NextMatch(e, strategy, cursor) ==
    LeftmostMatch({m \in {MatchOnLine(e, strategy, i, cursor) : i \in DOMAIN text} : m # NoMatch})

\* the loop over re.finditer of strategies 1 to 3 of find_chapter_in_body
RECURSIVE NumberedScan(_, _, _)

\* the body of the loop for the match m: matches in the TOC, of another title and
\* of page headers are passed over
ScanFrom(e, strategy, m) ==
    IF m = NoMatch THEN -1
    ELSE IF m.start < toc_end \/ ~m.ok \/ is_page_header(m.end) THEN NumberedScan(e, strategy, m.end)
    ELSE m.start

NumberedScan(e, strategy, cursor) == ScanFrom(e, strategy, NextMatch(e, strategy, cursor))

\* strategy 4: the first match of r'\n{title}\s*\n' (re.IGNORECASE) in the whole
\* text; the match starts at the newline that ends the line before
UnnumberedFind(e) ==
    LET hits == {i \in DOMAIN text : /\ i > 1
                                      /\ IsWritten(i)
                                      /\ IsPrefix(e.title_with_spaces, text[i].s, TRUE)
                                      /\ Strip(SubSeq(text[i].s, Len(e.title_with_spaces) + 1, Len(text[i].s))) = <<>>} IN
    IF hits = {} THEN -1
    ELSE text[CHOOSE i \in hits : \A o \in hits : i <= o].at - 1

\* SmartChapterSplitterV7.find_chapter_in_body
FirstFound(first, second, third) ==
    IF first # -1 THEN first ELSE IF second # -1 THEN second ELSE third

find_chapter_in_body(e) ==
    IF e.number # <<>>
    THEN FirstFound(NumberedScan(e, 1, 0), NumberedScan(e, 2, 0), NumberedScan(e, 3, 0))
    ELSE UnnumberedFind(e)

\* chapter_positions.sort(key=lambda x: x['position']): a stable sort
RECURSIVE InsertByPosition(_, _)
InsertByPosition(sorted, c) ==
    IF sorted = <<>> THEN <<c>>
    ELSE IF sorted[Len(sorted)].position <= c.position THEN Append(sorted, c)
    ELSE Append(InsertByPosition(SubSeq(sorted, 1, Len(sorted) - 1), c), sorted[Len(sorted)])

RECURSIVE SortByPosition(_)
SortByPosition(cs) ==
    IF cs = <<>> THEN <<>>
    ELSE InsertByPosition(SortByPosition(SubSeq(cs, 1, Len(cs) - 1)), cs[Len(cs)])

\* the located entries of the TOC, in TOC order
Located(display, pos) == IF pos # -1 THEN <<[title |-> display, position |-> pos]>> ELSE <<>>

RECURSIVE LocateAll(_, _)
LocateAll(toc, k) ==
    IF k > Len(toc) THEN <<>>
    ELSE Located(toc[k].display, find_chapter_in_body(toc[k])) \o LocateAll(toc, k + 1)

\* a slicing that lets every chapter run to the end of the document
SpanToEndOfText(positions, i) == TextLen

\* the span of the i-th located chapter
SpanEnd(positions, i) == IF i < Len(positions) THEN positions[i + 1].position ELSE TextLen

\* a filter that keeps a chapter only in the first run on an object
LongEnoughOnFirstRun(chars, words) == pc = "init" /\ chars >= min_chapter_length

\* if len(chapter_text) >= self.min_chapter_length
LongEnough(chars, words) == chars >= min_chapter_length

\* the loop of split_chapters that slices and filters, from the i-th located chapter on
RECURSIVE SliceChapters(_, _)
Sliced(name, start_pos, end_pos, chars, words) ==
    IF LongEnough(chars, words)
    THEN <<[title |-> name, start |-> start_pos, end |-> end_pos, chars |-> chars, words |-> words]>>
    ELSE <<>>

SliceFrom(name, start_pos, end_pos) ==
    Sliced(name, start_pos, end_pos, StrippedLen(start_pos, end_pos), WordsIn(start_pos, end_pos))

SliceChapters(positions, i) ==
    IF i > Len(positions) THEN <<>>
    ELSE SliceFrom(positions[i].title, positions[i].position, SpanEnd(positions, i))
         \o SliceChapters(positions, i + 1)

\* SmartChapterSplitterV7.split_chapters
split_chapters ==
    /\ pc = "init"
    /\ pc' = "v7"
    /\ toc_chapters' = extract_toc_chapters(1)
    /\ chapter_positions' = SortByPosition(LocateAll(toc_chapters', 1))
    /\ chapters' = SliceChapters(chapter_positions', 1)
    /\ UNCHANGED <<title, normalized, validation, tracker, moduleVars, text, min_chapter_length, hybridVars>>

(***************************************************************************)
(* The books the splitters are run on: a front (title page or table of     *)
(* contents), front matter, and at most MaxSections sections               *)
(***************************************************************************)
MaxSections == 3

L_Contents == Str(<<"C", "o", "n", "t", "e", "n", "t", "s">>)
L_TheBook == Str(<<"T", "H", "E", " ", "B", "O", "O", "K">>)
L_Prologue == Str(W_Prologue)
L_Epilogue == Str(W_Epilogue)
L_PROLOGUE == Str(<<"P", "R", "O", "L", "O", "G", "U", "E">>)
L_ProloguePaged == Str(<<"P", "r", "o", "l", "o", "g", "u", "e", " ", "3">>)
L_EpiloguePaged == Str(<<"E", "p", "i", "l", "o", "g", "u", "e", " ", "2", "0">>)
L_TocAlpha == Str(<<"1", " ", "A", "l", "p", "h", "a", " ", "5">>)
L_TocBetaRay == Str(<<"2", " ", "B", "e", "t", "a", "R", "a", "y", " ", "9">>)
L_1 == Str(<<"1">>)
L_2 == Str(<<"2">>)
L_Alpha == Str(<<"A", "l", "p", "h", "a">>)
L_BetaRay == Str(<<"B", "e", "t", "a", " ", "R", "a", "y">>)
L_1Alpha == Str(<<"1", " ", "A", "l", "p", "h", "a">>)

Fronts == {
    <<L_TheBook>>,
    <<L_Contents, L_Prologue, L_TocAlpha, L_TocBetaRay, L_Epilogue>>,
    <<L_Contents, L_ProloguePaged, L_TocAlpha, L_TocBetaRay, L_EpiloguePaged>>}

FrontMatters == {<<>>, <<Prose(600, 4, 30, TRUE)>>}

Sections == {
    <<L_PROLOGUE, Prose(20, 4, 2, TRUE)>>,
    <<L_Prologue, Prose(2100, 4, 30, TRUE)>>,
    <<L_1, L_Alpha, Prose(700, 4, 30, TRUE)>>,
    <<L_1, L_Alpha, Prose(40, 13, 3, TRUE)>>,
    <<L_2, L_BetaRay, Prose(8, 4, 1, TRUE)>>,
    <<L_1Alpha, Prose(2100, 4, 30, TRUE)>>,
    <<L_Epilogue, Prose(700, 4, 0, FALSE)>>}

RECURSIVE Bodies(_)
Bodies(n) ==
    IF n = 0 THEN {<<>>}
    ELSE LET shorter == Bodies(n - 1) IN shorter \cup {b \o s : b \in shorter, s \in Sections}

Books == {Place(f \o m \o b, 0) : f \in Fronts, m \in FrontMatters, b \in Bodies(MaxSections)}

(***************************************************************************)
(* HybridChapterSplitter (hybrid_chapter_splitter_production.py)           *)
(***************************************************************************)
\* if len(text) > 10000
MinExtractedLength == 10000

\* if idx >= 0 and idx < 5000
TocIndicatorLimit == 5000

\* toc_end = min(toc_start + 3000, len(self.full_text))
TocWindow == 3000

\* if len(line) < 5 or len(line) > 100
MinTocLine == 5

MaxTocLine == 100

\* second_idx = text_lower.find(marker, first_idx + len(marker) + 100)
MarkerGap == 100

\* return 5000
DefaultTocEnd == 5000

\* sample = text[:500]
RepetitionSample == 500

\* if len(words) < 10
MinSampleWords == 10

\* needle occurs in s at offset o, with ic whatever the case of the letters
OccursAt(s, needle, o, ic) ==
    \A k \in DOMAIN needle : IF ic THEN ToLower(s[o + k]) = ToLower(needle[k]) ELSE s[o + k] = needle[k]

\* the least of the offsets hits, -1 if there is none
LeastOffset(hits) == IF hits = {} THEN -1 ELSE CHOOSE o \in hits : \A other \in hits : o <= other

\* the least offset o >= o0 of s at which needle occurs, -1 if none
FindInLine(s, needle, o0, ic) == LeastOffset({o \in o0..(Len(s) - Len(needle)) : OccursAt(s, needle, o, ic)})

\* the offset in the text of what was found in line i at offset found[i]
OffsetInLine(found, i) == IF i = -1 THEN -1 ELSE text[i].at + found[i]

\* self.full_text.find(needle, from), or with ic from + self.full_text[from:].lower().find(needle.lower());
\* -1 if there is none.  A needle lies in one written line: found is its offset in
\* each line.
FirstOccurrence(found) == OffsetInLine(found, LeastOffset({i \in DOMAIN text : found[i] # -1}))

FindFrom(needle, from, ic) ==
    IF needle = <<>> THEN -1
    ELSE FirstOccurrence([i \in DOMAIN text |-> IF IsWritten(i) THEN FindInLine(text[i].s, needle, Max(0, from - text[i].at), ic)
                                                  ELSE -1])

toc_indicators == << <<"c", "o", "n", "t", "e", "n", "t", "s">>, <<"t", "a", "b", "l", "e", " ", "o", "f", " ", "c", "o", "n", "t", "e", "n", "t", "s">>, <<"c", "h", "a", "p", "t", "e", "r", "s">>, <<"i", "n", "d", "e", "x">> >>

end_markers == << <<"p", "r", "o", "l", "o", "g", "u", "e">>, <<"c", "h", "a", "p", "t", "e", "r", " ", "1">>, <<"p", "a", "r", "t", " ", "i">>, <<"p", "a", "r", "t", " ", "1">>, <<"i", "n", "t", "r", "o", "d", "u", "c", "t", "i", "o", "n">> >>

SpecialNames == {W_Prologue, W_Epilogue, <<"I", "n", "t", "r", "o", "d", "u", "c", "t", "i", "o", "n">>, <<"P", "r", "e", "f", "a", "c", "e">>, <<"F", "o", "r", "e", "w", "o", "r", "d">>, <<"A", "f", "t", "e", "r", "w", "o", "r", "d">>}

PartNames == {<<"P", "a", "r", "t">>, <<"S", "e", "c", "t", "i", "o", "n">>, <<"B", "o", "o", "k">>}

\* the first indicator, in the order of the list, found before offset 5000: its offset, -1 if none
RECURSIVE TocStart(_)

\* if idx >= 0 and idx < 5000: toc_start = idx; break
IndicatorAt(idx, k) == IF idx >= 0 /\ idx < TocIndicatorLimit THEN idx ELSE TocStart(k + 1)

TocStart(k) ==
    IF k > Len(toc_indicators) THEN -1 ELSE IndicatorAt(FindFrom(toc_indicators[k], 0, TRUE), k)

NoTitle == [number |-> <<>>, title |-> <<>>, raw_title |-> <<>>]

\* re.match(r'^(\d+)\s+(.+?)(?:\s+\d+)?$', line): the groups (num, title.strip()), <<>> if no match
HybridNumberedMatch(ln) ==
    LET d == RunLen(ln, 1, DigitSet)
        w == RunLen(ln, d + 1, {" ", "\t"})
        rest == SubSeq(ln, d + w + 1, Len(ln))
        dd == DigitSuffixLen(rest)
        head == SubSeq(rest, 1, Len(rest) - dd)
        shorter == RStrip(head)
    IN  IF d >= 1 /\ w >= 1 /\ rest # <<>>
        THEN <<SubSeq(ln, 1, d), Strip(IF dd >= 1 /\ shorter # <<>> /\ Len(shorter) < Len(head) THEN shorter ELSE rest)>>
        ELSE <<>>

\* re.match(r'^(Part|Section|Book)\s+(I{1,3}|IV|V|VI{0,3}|\d+)', line, re.IGNORECASE)
PartMatch(ln) ==
    \E name \in PartNames :
        /\ IsPrefix(name, ln, TRUE)
        /\ LET w == RunLen(ln, Len(name) + 1, {" ", "\t"}) IN
           /\ w >= 1
           /\ Len(name) + w + 1 <= Len(ln)
           /\ ToLower(ln[Len(name) + w + 1]) \in {"i", "v"} \cup DigitSet

\* the entry of one stripped line of the TOC text, NoTitle if it is none
\* the entry of a line of the TOC text of which the numbered pattern matched the groups g
HybridEntry(ln, g) ==
    IF g # <<>> THEN [number |-> g[1], title |-> g[1] \o <<" ">> \o g[2], raw_title |-> g[2]]
    ELSE IF (\E name \in SpecialNames : IsPrefix(name, ln, TRUE)) \/ PartMatch(ln)
         THEN [number |-> ln, title |-> ln, raw_title |-> ln]
    ELSE NoTitle

HybridTocLine(ln) ==
    IF Len(ln) < MinTocLine \/ Len(ln) > MaxTocLine THEN NoTitle ELSE HybridEntry(ln, HybridNumberedMatch(ln))

\* the characters of line i that lie in self.full_text[lo:hi], stripped; of a line of
\* prose, which matches no pattern of a TOC, one letter stands for all
LineBetween(i, lo, hi) ==
    IF IsProse(i) THEN <<"x">>
    ELSE Strip(SubSeq(text[i].s, Max(0, lo - text[i].at) + 1, Min(text[i].len, hi - text[i].at)))

\* chapters.append(...) for the entry of a line, nothing for NoTitle
TitleList(e) == IF e = NoTitle THEN <<>> ELSE <<e>>

RECURSIVE TocLines(_, _, _)
TocLines(i, lo, hi) ==
    IF i > Len(text) \/ text[i].at >= hi THEN <<>>
    ELSE TitleList(HybridTocLine(LineBetween(i, lo, hi))) \o TocLines(i + 1, lo, hi)

\* the entries of the TOC text self.full_text[toc_start:toc_start + 3000]
TocFrom(toc_start) ==
    IF toc_start < 0 THEN <<>>
    ELSE TocLines(LineOf(toc_start), toc_start, Min(toc_start + TocWindow, TextLen))

\* HybridChapterSplitter._extract_toc_v7_method
extract_toc_v7_method == TocFrom(TocStart(1))

\* HybridChapterSplitter._find_toc_end, from the k-th marker on
RECURSIVE find_toc_end(_)

\* if second_idx > first_idx: return second_idx
SecondOccurrence(k, first_idx, second_idx) ==
    IF first_idx >= 0 /\ second_idx > first_idx THEN second_idx ELSE find_toc_end(k + 1)

\* second_idx = text_lower.find(marker, first_idx + len(marker) + 100)
AfterFirst(k, first_idx) ==
    SecondOccurrence(k, first_idx, FindFrom(end_markers[k], first_idx + Len(end_markers[k]) + MarkerGap, TRUE))

find_toc_end(k) ==
    IF k > Len(end_markers) THEN DefaultTocEnd ELSE AfterFirst(k, FindFrom(end_markers[k], 0, TRUE))

RECURSIVE RemoveSpaces(_)
RemoveSpaces(t) ==
    IF t = <<>> THEN <<>>
    ELSE (IF t[1] = " " THEN <<>> ELSE <<t[1]>>) \o RemoveSpaces(Tail(t))

\* HybridChapterSplitter._generate_camel_case_variations
generate_camel_case_variations(t) ==
    <<t, RemoveSpaces(t), GeneralCamelSub(RemoveSpaces(t), 1), SingleUpperSub(RemoveSpaces(t), 1)>>

\* the length of the common run of a from i and b from j, within a[..ahi] and b[..bhi]
RECURSIVE CommonRun(_, _, _, _, _, _)
CommonRun(a, i, ahi, b, j, bhi) ==
    IF i <= ahi /\ j <= bhi /\ a[i] = b[j] THEN 1 + CommonRun(a, i + 1, ahi, b, j + 1, bhi) ELSE 0

\* SequenceMatcher.find_longest_match on a[alo..ahi] and b[blo..bhi]: the longest
\* block, of those the one earliest in a, of those the one earliest in b
LongestMatch(a, alo, ahi, b, blo, bhi) ==
    LET runs == {<<i, j, CommonRun(a, i, ahi, b, j, bhi)>> : i \in alo..ahi, j \in blo..bhi} IN
    CHOOSE r \in runs : \A o \in runs :
        \/ r[3] > o[3]
        \/ r[3] = o[3] /\ (r[1] < o[1] \/ (r[1] = o[1] /\ r[2] <= o[2]))

\* the sum of the sizes of SequenceMatcher.get_matching_blocks
RECURSIVE MatchingChars(_, _, _, _, _, _)
MatchingChars(a, alo, ahi, b, blo, bhi) ==
    IF alo > ahi \/ blo > bhi THEN 0
    ELSE LET m == LongestMatch(a, alo, ahi, b, blo, bhi) IN
         IF m[3] = 0 THEN 0
         ELSE m[3] + MatchingChars(a, alo, m[1] - 1, b, blo, m[2] - 1)
                   + MatchingChars(a, m[1] + m[3], ahi, b, m[2] + m[3], bhi)

\* the characters a and b share, counted with multiplicity: no block matching of a
\* and b matches more
SharedChars(a, b) ==
    LET cs == Range(a) IN
    LET n(c, s) == Cardinality({i \in DOMAIN s : s[i] = c}) IN
    LET RECURSIVE Sum(_)
        Sum(S) == IF S = {} THEN 0 ELSE LET c == CHOOSE x \in S : TRUE IN Min(n(c, a), n(c, b)) + Sum(S \ {c})
    IN  Sum(cs)

\* self.full_text[p:p+n].lower()
Chunk(p, n) == [k \in 1..n |-> ToLower(CharAt(p + k - 1))]

\* 2.0 * matches / (len(a) + len(b)) >= threshold, for len(a) = len(b) = n and threshold 0.80
ReachesThreshold(matches, n) == 5 * matches >= 4 * n

\* HybridChapterSplitter._fuzzy_find(pattern, 0.80, start_pos).  The windows are at
\* start_pos + i for i in range(0, len - pattern_len, step); a window of prose alone
\* shares at most the spaces with the pattern and is never the best above the threshold,
\* so the windows that touch a written line decide.
\* the least number of matching characters that reaches the threshold for a pattern
\* of n characters
NeededMatches(n) == CHOOSE m \in 0..n : ReachesThreshold(m, n) /\ \A o \in 0..n : ReachesThreshold(o, n) => m <= o

\* the windows of n characters at start_pos + i, i in range(0, len - n, step), that
\* touch a written line
WindowsNear(n, step, start_pos) ==
    UNION {{p \in (text[i].at - n + 1)..(text[i].at + text[i].len - 1) :
                /\ p >= start_pos
                /\ (p - start_pos) % step = 0
                /\ p - start_pos < (TextLen - start_pos) - n} : i \in {l \in DOMAIN text : IsWritten(l)}}

\* if ratio > best_ratio: the first window of the best ratio
BestWindow(good, score) ==
    CHOOSE p \in good : \A o \in good : score[p] > score[o] \/ (score[p] = score[o] /\ p <= o)

\* if best_ratio >= threshold: return best_pos
AboveThreshold(best, score, n) == IF ReachesThreshold(score[best], n) THEN best ELSE -1

BestOf(n, good, score) == IF n = 0 \/ good = {} THEN -1 ELSE AboveThreshold(BestWindow(good, score), score, n)

\* the ratios of the windows good, as the number of matching characters
ScoreWindows(pattern_lower, n, good) ==
    BestOf(n, good, [p \in good |-> MatchingChars(pattern_lower, 1, n, Chunk(p, n), 1, n)])

\* the windows that can reach the threshold are those that share enough characters
\* with the pattern
SearchWindows(pattern_lower, n, near) ==
    ScoreWindows(pattern_lower, n, {p \in near : SharedChars(pattern_lower, Chunk(p, n)) >= NeededMatches(n)})

SlideWindow(pattern_lower, n, start_pos) ==
    SearchWindows(pattern_lower, n, WindowsNear(n, Max(1, n \div 4), start_pos))

fuzzy_find(pattern, start_pos) == SlideWindow(LowerStr(pattern), Len(LowerStr(pattern)), start_pos)

\* strategy 3 of _find_chapter_in_text: the first variation found, from the k-th on
RECURSIVE VariationFind(_, _, _)

\* if idx >= 0: return start_pos + idx
VariationAt(idx, vs, k, start_pos) == IF idx >= 0 THEN idx ELSE VariationFind(vs, k + 1, start_pos)

VariationFind(vs, k, start_pos) ==
    IF k > Len(vs) THEN -1 ELSE VariationAt(FindFrom(vs[k], start_pos, TRUE), vs, k, start_pos)

\* the strategies with the case-insensitive match tried before the exact one
InsensitiveFirst(exact, insensitive, camel, fuzzy) ==
    IF insensitive >= 0 THEN insensitive
    ELSE IF exact >= 0 THEN exact
    ELSE IF camel >= 0 THEN camel
    ELSE fuzzy

\* the result of the first of the four strategies that finds the title
FirstStrategy(exact, insensitive, camel, fuzzy) ==
    IF exact >= 0 THEN exact
    ELSE IF insensitive >= 0 THEN insensitive
    ELSE IF camel >= 0 THEN camel
    ELSE fuzzy

\* HybridChapterSplitter._find_chapter_in_text
find_chapter_in_text(t, raw_title, start_pos) ==
    FirstStrategy(FindFrom(t, start_pos, FALSE), FindFrom(t, start_pos, TRUE),
                  VariationFind(generate_camel_case_variations(raw_title), 1, start_pos), fuzzy_find(t, start_pos))

\* if next_pos > current_pos: return next_pos
NextOrEnd(next_pos, current_pos) == IF next_pos > current_pos THEN next_pos ELSE TextLen

\* HybridChapterSplitter._find_next_chapter_position; toc is self.toc_chapters
find_next_chapter_position(toc, current_pos, current_idx) ==
    IF current_idx + 1 < Len(toc)
    THEN NextOrEnd(find_chapter_in_text(toc[current_idx + 2].title, toc[current_idx + 2].title, 0), current_pos)
    ELSE TextLen

\* if word_count >= self.min_chapter_length: chapters.append(...); confidence is in hundredths
LocatedChapter(i, name, position, next_position, word_count) ==
    IF position >= 0 /\ word_count >= min_chapter_length
    THEN <<[number |-> i, title |-> name, position |-> position, end |-> next_position,
            word_count |-> word_count, confidence |-> 85, source |-> "automatic"]>>
    ELSE <<>>

\* word_count = len(chapter_text.split())
LocatedSpan(i, name, position, next_position) ==
    LocatedChapter(i, name, position, next_position, WordsIn(position, next_position))

\* next_position = self._find_next_chapter_position(position, i)
LocatedAt(toc, i, position) ==
    LocatedSpan(i, toc[i].title, position, find_next_chapter_position(toc, position, i - 1))

\* the chapters of the entries of the TOC from the i-th on, as the loop of
\* _locate_and_validate_chapters appends them
RECURSIVE LocateFrom(_, _, _)
LocateFrom(toc, i, toc_end_position) ==
    IF i > Len(toc) THEN <<>>
    ELSE LocatedAt(toc, i, find_chapter_in_text(toc[i].title, toc[i].raw_title, toc_end_position))
         \o LocateFrom(toc, i + 1, toc_end_position)

\* HybridChapterSplitter._locate_and_validate_chapters
locate_and_validate_chapters(toc) ==
    IF toc = <<>> THEN <<>> ELSE LocateFrom(toc, 1, find_toc_end(1))

\* str.isdigit() and str.isupper()
IsDigitStr(t) == t # <<>> /\ \A i \in DOMAIN t : IsDigit(t[i])

IsUpperStr(t) == (\E i \in DOMAIN t : IsUpper(t[i])) /\ \A i \in DOMAIN t : ~IsLower(t[i])

\* HybridChapterSplitter._is_valid_title
is_valid_title(t) ==
    /\ ~(Len(t) < 3 \/ Len(t) > 100)
    /\ ~IsDigitStr(Strip(t))
    /\ ~(IsUpperStr(t) /\ Len(t) > 10)

\* the content of a chapter is self.full_text[position:end].strip(): the offsets of its
\* first character and one past its last
ContentStart(ch) == FirstNonSpace(ch.position, Min(ch.end, TextLen))

ContentEnd(ch) == LastNonSpace(ContentStart(ch), Min(ch.end, TextLen))

\* str.split() of the characters of line i at the offsets in [a, b) of the line
LineWords(i, a, b) ==
    LET l == text[i] IN
    IF a >= b THEN <<>>
    ELSE IF l.nw = 0 THEN SplitWords(SubSeq(l.s, a + 1, b))
    ELSE LET klo == IF a % (l.wl + 1) = l.wl THEN (a \div (l.wl + 1)) + 1 ELSE a \div (l.wl + 1)
             khi == (b - 1) \div (l.wl + 1)
         IN  [n \in 1..(khi - klo + 1) |->
                 LET lo == Max(a, (klo + n - 1) * (l.wl + 1))
                     hi == Min(b, (klo + n - 1) * (l.wl + 1) + l.wl)
                 IN  [j \in 1..(hi - lo) |-> ProseChar(l, lo + j - 1)]]

\* self.full_text[lo:hi].split(), from line i on
RECURSIVE WordsOfLines(_, _, _)
WordsOfLines(i, lo, hi) ==
    IF i > Len(text) \/ text[i].at >= hi THEN <<>>
    ELSE LineWords(i, Max(lo - text[i].at, 0), Min(hi - text[i].at, text[i].len)) \o WordsOfLines(i + 1, lo, hi)

\* HybridChapterSplitter._has_excessive_repetition
\* the greatest of the counts
GreatestCount(count) == CHOOSE c \in Range(count) : \A o \in Range(count) : c >= o

\* max(word_counts.values())
MaxWordCount(words) ==
    IF Cardinality(Range(words)) = Len(words) THEN 1
    ELSE GreatestCount([w \in Range(words) |-> Cardinality({i \in DOMAIN words : words[i] = w})])

\* a test of repetition that lets a sample of any length pass to the count
RepeatsWordsOfAnyLength(words) == 10 * MaxWordCount(words) > 3 * Len(words)

\* max_count / len(words) > 0.3, and True of fewer than 10 words
RepeatsWords(words) == IF Len(words) < MinSampleWords THEN TRUE ELSE 10 * MaxWordCount(words) > 3 * Len(words)

\* words = sample.lower().split() for the n characters of the sample, from offset a
SampleWords(a, n) == RepeatsWords(IF n <= 0 THEN <<>> ELSE WordsOfLines(LineOf(a), a, a + n))

\* sample = text[:500] of the content from offset a to offset e
SampleOf(a, e) == SampleWords(a, Min(RepetitionSample, e - a))

has_excessive_repetition(ch) == SampleOf(ContentStart(ch), ContentEnd(ch))

\* the term of the sentences '.', '!' and '?' counted in the content
SentenceTerm(sentences) == IF sentences > 20 THEN 25 ELSE IF sentences > 10 THEN 15 ELSE IF sentences > 5 THEN 5 ELSE 0

\* the five terms of _calculate_quality_score, in hundredths
QualityTerms(ch) ==
    << IF ch.word_count > 2000 THEN 30 ELSE IF ch.word_count > 1000 THEN 20 ELSE IF ch.word_count > 500 THEN 10 ELSE 0,
       SentenceTerm(SentencesIn(ContentStart(ch), ContentEnd(ch))),
       IF is_valid_title(ch.title) THEN 20 ELSE 0,
       IF ch.position > 0 THEN 15 ELSE 0,
       IF ~has_excessive_repetition(ch) THEN 10 ELSE 0 >>

\* min(1.0, score) of the sum of the terms, in hundredths
SumOfTerms(t) == Min(100, t[1] + t[2] + t[3] + t[4] + t[5])

\* HybridChapterSplitter._calculate_quality_score, in hundredths
calculate_quality_score(ch) == SumOfTerms(QualityTerms(ch))

\* score >= 0.75 on the floating-point sum: 0.30 + 0.15 + 0.20 + 0.10 is
\* 0.7499999999999999, every other sum compares as its hundredths do
ReachesQuality(t) == SumOfTerms(t) >= 75 /\ t # <<30, 15, 20, 0, 10>>

\* HybridChapterSplitter._validate_chapter_quality
\* if score >= 0.75: chapter['confidence'] = score; validated.append(chapter)
Validated(chapter, t) ==
    IF ReachesQuality(t) THEN <<[chapter EXCEPT !.confidence = SumOfTerms(t)]>> ELSE <<>>

RECURSIVE validate_chapter_quality(_)
validate_chapter_quality(cs) ==
    IF cs = <<>> THEN <<>>
    ELSE Validated(cs[1], QualityTerms(cs[1])) \o validate_chapter_quality(Tail(cs))

\* if position >= 0: chapters.append(...) with 'confidence': 1.0
UserChapter(i, name, position, next_pos) ==
    IF position >= 0
    THEN <<[number |-> i, title |-> name, position |-> position, end |-> next_pos,
            word_count |-> WordsIn(position, next_pos), confidence |-> 100, source |-> "user_provided"]>>
    ELSE <<>>

\* next_pos = self._find_next_chapter_position(position, i)
UserChapterAt(toc, i, name, position) ==
    UserChapter(i, name, position, find_next_chapter_position(toc, position, i - 1))

\* HybridChapterSplitter._extract_with_user_list, from the i-th title on
RECURSIVE extract_with_user_list(_, _, _)
extract_with_user_list(toc, user_titles, i) ==
    IF i > Len(user_titles) THEN <<>>
    ELSE UserChapterAt(toc, i, user_titles[i], find_chapter_in_text(user_titles[i], user_titles[i], 0))
         \o extract_with_user_list(toc, user_titles, i + 1)

\* the libraries of _extract_text_multi_method, in the order it tries them
Methods == <<"pdfplumber", "pymupdf", "pypdf2">>

\* _extract_text_multi_method with the libraries tried in the reverse order
extract_text_last_method(works) ==
    LET usable == {k \in DOMAIN Methods : Methods[k] \in works /\ TextLen > MinExtractedLength} IN
    IF usable = {} THEN "none" ELSE Methods[CHOOSE k \in usable : \A o \in usable : k >= o]

\* HybridChapterSplitter._extract_text_multi_method: works are the libraries that read
\* the file; a library's text is used if it is longer than 10000 characters
extract_text_multi_method(works) ==
    LET usable == {k \in DOMAIN Methods : Methods[k] \in works /\ TextLen > MinExtractedLength} IN
    IF usable = {} THEN "none" ELSE Methods[CHOOSE k \in usable : \A o \in usable : k <= o]

\* an error result carries no accuracy
NoAccuracy == <<>>

\* _success_result, _review_needed_result and _error_result, without the chapters
success_result(cs, accuracy) ==
    [status |-> "success", error_type |-> "none", count |-> Len(cs), accuracy |-> accuracy, needs_review |-> FALSE]

review_needed_result(cs, accuracy) ==
    [status |-> "needs_review", error_type |-> "none", count |-> Len(cs), accuracy |-> accuracy, needs_review |-> TRUE]

error_result(error_type, cs) ==
    [status |-> "error", error_type |-> error_type, count |-> Len(cs), accuracy |-> NoAccuracy, needs_review |-> TRUE]

\* the lists of titles a caller supplies; the empty list stands for no list
UserLists == {
    <<>>,
    <<W_Prologue, <<"A", "l", "p", "h", "a">> >>,
    <<<<"A", "l", "p", "h", "a">>, <<"B", "e", "t", "a", " ", "R", "a", "y">>, W_Epilogue, <<"O", "m", "e", "g", "a">> >>}

\* a result whose accuracy is taken against the TOC alone
FinalResultAgainstToc(final, toc, user) ==
    LET final_accuracy == <<Len(final), Max(Len(toc), 1)>> IN
    IF 5 * final_accuracy[1] >= 4 * final_accuracy[2] THEN success_result(final, final_accuracy)
    ELSE IF 2 * final_accuracy[1] >= final_accuracy[2] THEN review_needed_result(final, final_accuracy)
    ELSE error_result("low_accuracy", final)

\* the result of extract_chapters for the chapters it returns; an accuracy is a
\* pair <<numerator, denominator>>
FinalResult(final, toc, user) ==
    LET final_accuracy == <<Len(final), Max(Max(Len(toc), Len(user)), 1)>> IN
    IF 5 * final_accuracy[1] >= 4 * final_accuracy[2] THEN success_result(final, final_accuracy)
    ELSE IF 2 * final_accuracy[1] >= final_accuracy[2] THEN review_needed_result(final, final_accuracy)
    ELSE error_result("low_accuracy", final)

\* HybridChapterSplitter.extract_chapters when no library yields a text
ExtractionFailed ==
    /\ pc = "init"
    /\ pc' = "hybrid"
    /\ \E works \in SUBSET Range(Methods) :
          /\ readable' = works
          /\ extraction_method' = extract_text_multi_method(works)
          /\ extraction_method' = "none"
    /\ \E user \in UserLists : user_chapter_list' = user
    /\ toc_chapters' = <<>>
    /\ located_chapters' = <<>>
    /\ validated_chapters' = <<>>
    /\ chapters' = <<>>
    /\ result' = error_result("extraction_failed", <<>>)
    /\ UNCHANGED <<title, normalized, validation, tracker, moduleVars, text, min_chapter_length, chapter_positions>>

\* HybridChapterSplitter.extract_chapters when a library yields the text
ExtractionSucceeded ==
    /\ pc = "init"
    /\ pc' = "hybrid"
    /\ TextLen > MinExtractedLength
    /\ toc_chapters' = extract_toc_v7_method
    /\ located_chapters' = locate_and_validate_chapters(toc_chapters')
    /\ validated_chapters' = validate_chapter_quality(located_chapters')
    /\ \E user \in UserLists :
          /\ user_chapter_list' = user
          /\ chapters' = IF user # <<>> /\ 5 * Len(validated_chapters') < 4 * Len(user)
                         THEN extract_with_user_list(toc_chapters', user, 1)
                         ELSE validated_chapters'
    /\ result' = FinalResult(chapters', toc_chapters', user_chapter_list')
    /\ \E works \in SUBSET Range(Methods) :
          /\ readable' = works
          /\ extraction_method' = extract_text_multi_method(works)
          /\ extraction_method' # "none"
    /\ UNCHANGED <<title, normalized, validation, tracker, moduleVars, text, min_chapter_length, chapter_positions>>

\* HybridChapterSplitter.extract_chapters
extract_chapters == ExtractionFailed \/ ExtractionSucceeded

(***************************************************************************)
(* AIBookProcessor of V11 (audiobook_processor_v11_perfect_chapters.py)    *)
(***************************************************************************)
\* if word_count < 50
MinSplitWords == 50

W_FullBook == <<"F", "u", "l", "l", " ", "B", "o", "o", "k">>

\* the loop of split_into_chapters, from the i-th entry of chapter_data on
RECURSIVE SplitFrom(_, _)
SplitFrom(chapter_data, i) ==
    IF i > Len(chapter_data) THEN <<>>
    ELSE LET start_pos == chapter_data[i].position
             end_pos == IF i < Len(chapter_data) THEN chapter_data[i + 1].position ELSE TextLen
             word_count == WordsIn(start_pos, end_pos)
         IN  (IF word_count < MinSplitWords THEN <<>>
              ELSE <<[number |-> i, title |-> chapter_data[i].title, start |-> start_pos, end |-> end_pos, word_count |-> word_count]>>)
                 \o SplitFrom(chapter_data, i + 1)

\* AIBookProcessor.split_into_chapters(text, chapter_data)
SplitIntoChapters(chapter_data) ==
    IF chapter_data = <<>>
    THEN <<[number |-> 0, title |-> W_FullBook, start |-> 0, end |-> TextLen, word_count |-> WordsIn(0, TextLen)]>>
    ELSE SplitFrom(chapter_data, 1)

\* steps 2 and 3 of AIBookProcessor.process: v7_perfect_detect_chapters, then
\* split_into_chapters on the chapters of its structure
split_into_chapters ==
    /\ pc = "init"
    /\ pc' = "v11"
    /\ toc_chapters' = extract_toc_chapters(1)
    /\ chapter_positions' = SortByPosition(LocateAll(toc_chapters', 1))
    /\ chapters' = SplitIntoChapters(chapter_positions')
    /\ UNCHANGED <<title, normalized, validation, tracker, moduleVars, text, min_chapter_length, hybridVars>>

(***************************************************************************)
(* simple_chapter_detector.py                                              *)
(***************************************************************************)
\* if pos - prev_pos < 500
MinMarkerDistance == 500

\* next_100 = text[pos:pos+100].strip()
LookAhead == 100

\* the line after the blank lines that follow line i, with its leading white space
\* removed; <<>> if there is none or it is prose, which starts with a lowercase letter
NextTitleLine(i) ==
    LET j == NextNonBlank(i) IN
    IF j = 0 \/ IsProse(j) THEN <<>> ELSE LStrip(text[j].s)

\* the last line of the match of a pattern that starts on line i and ends with the
\* title on line i or on the next line that is not blank
LastLine(i, same_line) == IF same_line THEN i ELSE NextNonBlank(i)

NoMarker == [position |-> -1, title |-> <<>>, last |-> 0]

\* r'^(Prologue|PROLOGUE)\s*$' and r'^(Epilogue|EPILOGUE)\s*$' on line i
NamedMarker(i, names, display) ==
    IF IsWritten(i) /\ RStrip(text[i].s) \in names
    THEN [position |-> text[i].at, title |-> display, last |-> i] ELSE NoMarker

\* r'^([IVX]+)\s+([A-Z][^\n]{5,40})$' starting on line i
PartMarker(i) ==
    LET s == text[i].s
        r == RunLen(s, 1, {"I", "V", "X"})
        w == RunLen(s, r + 1, {" ", "\t"})
        same_line == r + w < Len(s)
        rest == IF same_line THEN SubSeq(s, r + w + 1, Len(s)) ELSE NextTitleLine(i)
    IN  IF /\ IsWritten(i)
           /\ r >= 1
           /\ (w >= 1 \/ ~same_line)
           /\ rest # <<>>
           /\ IsUpper(rest[1])
           /\ Len(rest) - 1 >= 5
           /\ Len(rest) - 1 <= 40
        THEN [position |-> text[i].at, title |-> SubSeq(s, 1, r) \o <<" ">> \o Strip(rest), last |-> LastLine(i, same_line)]
        ELSE NoMarker

\* r'^(\d+)\s*\n\s*([A-Z][^\n]{5,50})$' starting on line i
NumberedMarker(i) ==
    LET s == RStrip(text[i].s)
        rest == NextTitleLine(i)
    IN  IF /\ IsWritten(i)
           /\ IsDigitStr(s)
           /\ rest # <<>>
           /\ IsUpper(rest[1])
           /\ Len(rest) - 1 >= 5
           /\ Len(rest) - 1 <= 50
        THEN [position |-> text[i].at, title |-> s \o <<" ">> \o Strip(rest), last |-> NextNonBlank(i)]
        ELSE NoMarker

W_Chapter == <<"C", "h", "a", "p", "t", "e", "r">>

\* r'^Chapter\s+(\d+)[:\s]+([^\n]{3,50})$' (re.IGNORECASE) starting on line i, with
\* the title on the same line or, if the line ends after the number, on the next
\* line that is not blank
ChapterMarker(i) ==
    LET s == text[i].s
        c == Len(W_Chapter)
        w == RunLen(s, c + 1, {" ", "\t"})
        d == RunLen(s, c + w + 1, DigitSet)
        sep == RunLen(s, c + w + d + 1, {":", " ", "\t"})
        same_line == c + w + d + sep < Len(s)
        rest == IF same_line THEN SubSeq(s, c + w + d + sep + 1, Len(s)) ELSE NextTitleLine(i)
    IN  IF /\ IsWritten(i)
           /\ IsPrefix(W_Chapter, s, TRUE)
           /\ w >= 1
           /\ d >= 1
           /\ (sep >= 1 \/ ~same_line)
           /\ Len(rest) >= 3
           /\ Len(rest) <= 50
        THEN [position |-> text[i].at,
              title |-> W_Chapter \o <<" ">> \o SubSeq(s, c + w + 1, c + w + d) \o <<":", " ">> \o Strip(rest),
              last |-> LastLine(i, same_line)]
        ELSE NoMarker

\* the first blank line of the blank lines just before line i that lie after line
\* floor, i itself if there are none
RECURSIVE FirstBlankBefore(_, _)
FirstBlankBefore(i, floor) ==
    IF i - 1 > floor /\ text[i - 1].nw = 0 /\ Strip(text[i - 1].s) = <<>> THEN FirstBlankBefore(i - 1, floor) ELSE i

\* the last blank line of the blank lines just after line i, i itself if there are none
RECURSIVE LastBlankAfter(_)
LastBlankAfter(i) ==
    IF i + 1 <= Len(text) /\ IsBlank(i + 1) THEN LastBlankAfter(i + 1) ELSE i

\* str.split('\n') of a piece of text
RECURSIVE SplitLines(_)
SplitLines(s) ==
    LET n == RunLen(s, 1, {c \in Range(s) : c # "\n"}) IN
    IF n >= Len(s) THEN <<s>> ELSE <<SubSeq(s, 1, n)>> \o SplitLines(SubSeq(s, n + 2, Len(s)))

\* re.search(r'^([A-Z][^\n]{3,50})', next_100, re.MULTILINE).group(1).strip(), <<>> if no match
LookAheadTitle(next_100) ==
    LET lines == SplitLines(next_100)
        hits == {k \in DOMAIN lines : Len(lines[k]) >= 4 /\ IsUpper(lines[k][1])}
    IN  IF hits = {} THEN <<>>
        ELSE LET k == CHOOSE h \in hits : \A o \in hits : h <= o IN Strip(SubSeq(lines[k], 1, Min(Len(lines[k]), 51)))

\* r'^\s*(\d+)\s*$' matching the number on line i, the match before it having ended on
\* line floor; a match whose look-ahead is empty or starts with a digit adds no marker
\* (position -1) but is a match all the same
\* text[pos:pos+100]
TextAfter(pos) == [k \in 1..(Min(pos + LookAhead, TextLen) - pos) |-> CharAt(pos + k - 1)]

\* title = f"{num} {title_match.group(1).strip()}" if title_match else f"Chapter {num}"
NumberTitle(num, found) == IF found # <<>> THEN num \o <<" ">> \o found ELSE W_Chapter \o <<" ">> \o num

\* if next_100 and not next_100[0].isdigit(): the marker of the number num, whose
\* match ends on line end
LookedAhead(i, floor, num, end, next_100) ==
    [position |-> IF next_100 # <<>> /\ ~IsDigit(next_100[1]) THEN text[FirstBlankBefore(i, floor)].at ELSE -1,
     title |-> NumberTitle(num, LookAheadTitle(next_100)),
     last |-> end]

BareNumberOn(i, floor, num, end) ==
    LookedAhead(i, floor, num, end, Strip(TextAfter(text[end].at + text[end].len)))

BareNumberMarker(i, floor) ==
    IF text[i].nw = 0 /\ IsDigitStr(Strip(text[i].s))
    THEN BareNumberOn(i, floor, Strip(text[i].s), LastBlankAfter(i))
    ELSE NoMarker

PrologueNames == {W_Prologue, <<"P", "R", "O", "L", "O", "G", "U", "E">>}

EpilogueNames == {W_Epilogue, <<"E", "P", "I", "L", "O", "G", "U", "E">>}

\* the match of the k-th pattern of detect_chapters_simple that starts on line i
MarkerAt(k, i, floor) ==
    CASE k = 1 -> NamedMarker(i, PrologueNames, W_Prologue)
      [] k = 2 -> PartMarker(i)
      [] k = 3 -> NumberedMarker(i)
      [] k = 4 -> ChapterMarker(i)
      [] k = 5 -> BareNumberMarker(i, floor)
      [] k = 6 -> NamedMarker(i, EpilogueNames, W_Epilogue)

\* re.finditer of the k-th pattern from line i on: matches do not overlap, floor is
\* the last line of the match before
RECURSIVE ScanMarkers(_, _, _)

\* chapters.append({'position': pos, 'title': title}) for the match m, and the
\* matches after it
MarkersFrom(k, i, floor, m) ==
    IF m.last = 0 THEN ScanMarkers(k, i + 1, floor)
    ELSE (IF m.position >= 0 THEN <<[position |-> m.position, title |-> m.title]>> ELSE <<>>)
             \o ScanMarkers(k, m.last + 1, m.last)

ScanMarkers(k, i, floor) ==
    IF i > Len(text) THEN <<>> ELSE MarkersFrom(k, i, floor, MarkerAt(k, i, floor))

\* a filter that drops only the markers at the position of the one kept before
RECURSIVE FilterSamePosition(_, _, _)
FilterSamePosition(cs, i, filtered) ==
    IF i > Len(cs) THEN filtered
    ELSE IF i > 1 /\ cs[i].position = filtered[Len(filtered)].position
         THEN FilterSamePosition(cs, i + 1, filtered)
         ELSE FilterSamePosition(cs, i + 1, Append(filtered, cs[i]))

\* the loop of detect_chapters_simple that drops the markers too close to the one kept before
RECURSIVE FilterClose(_, _, _)
FilterClose(cs, i, filtered) ==
    IF i > Len(cs) THEN filtered
    ELSE IF i > 1 /\ cs[i].position - filtered[Len(filtered)].position < MinMarkerDistance
         THEN FilterClose(cs, i + 1, filtered)
         ELSE FilterClose(cs, i + 1, Append(filtered, cs[i]))

\* for pattern, chapter_type in patterns: the markers of the patterns from the k-th on
RECURSIVE ScanPatterns(_)
ScanPatterns(k) == IF k > 6 THEN <<>> ELSE ScanMarkers(k, 1, 0) \o ScanPatterns(k + 1)

\* detect_chapters_simple(text)
detect_chapters_simple == FilterClose(SortByPosition(ScanPatterns(1)), 1, <<>>)

\* int(s) of a string of digits
RECURSIVE ToInt(_)
ToInt(s) ==
    IF s = <<>> THEN 0
    ELSE 10 * ToInt(SubSeq(s, 1, Len(s) - 1)) + ((CHOOSE d \in DOMAIN DigitSeq : DigitSeq[d] = s[Len(s)]) - 1)

\* str(n)
RECURSIVE ToStr(_)
ToStr(n) == IF n < 10 THEN <<DigitSeq[n + 1]>> ELSE Append(ToStr(n \div 10), DigitSeq[(n % 10) + 1])

\* f"{n:02d}"
Format02(n) == IF n < 10 THEN <<"0">> \o ToStr(n) ELSE ToStr(n)

W_00 == <<"0", "0">>

W_900 == <<"9", "0", "0">>

\* the number split_chapters_simple assigns to the chapter at index i (from 0) of the list
SimpleNumber(t, i) ==
    IF FindInLine(t, W_Prologue, 0, TRUE) # -1 THEN W_00
    ELSE IF FindInLine(t, W_Epilogue, 0, TRUE) # -1 THEN W_900
    ELSE IF RunLen(t, 1, DigitSet) >= 1 THEN Format02(ToInt(SubSeq(t, 1, RunLen(t, 1, DigitSet))))
    ELSE Format02(i)

\* the loop of split_chapters_simple, from the i-th marker on
RECURSIVE SimpleFrom(_, _)
SimpleFrom(cs, i) ==
    IF i > Len(cs) THEN <<>>
    ELSE LET start == cs[i].position
             end == IF i + 1 <= Len(cs) THEN cs[i + 1].position ELSE TextLen
         IN  <<[number |-> SimpleNumber(cs[i].title, i - 1), title |-> cs[i].title, start |-> start, end |-> end,
                word_count |-> WordsIn(start, end)]>> \o SimpleFrom(cs, i + 1)

\* split_chapters_simple(text, chapters)
SplitChaptersSimple(cs) ==
    IF cs = <<>>
    THEN <<[number |-> W_00, title |-> W_FullBook, start |-> 0, end |-> TextLen, word_count |-> WordsIn(0, TextLen)]>>
    ELSE SimpleFrom(cs, 1)

\* split_chapters_simple on the markers detect_chapters_simple returns
split_chapters_simple ==
    /\ pc = "init"
    /\ pc' = "simple"
    /\ chapter_positions' = detect_chapters_simple
    /\ chapters' = SplitChaptersSimple(chapter_positions')
    /\ UNCHANGED <<title, normalized, validation, tracker, moduleVars, text, min_chapter_length, toc_chapters, hybridVars>>

(***************************************************************************)
(* AIBookProcessor of V9 (audiobook_processor_v9_ai_chapters.py)           *)
(***************************************************************************)
\* text_to_analyze = text[10000:] if len(text) > 10000 else text
SkippedWithoutPrologue == 10000

\* return chapters[:50]
MaxFallbackChapters == 50

W_CHAPTER == <<"C", "H", "A", "P", "T", "E", "R">>

W_Part == <<"P", "a", "r", "t">>

\* re.search(r'Prologue\s+[A-Z][a-z]', text).start(): "Prologue" with, after white
\* space on its line or the lines after, an uppercase and a lowercase letter; -1 if none
PrologueMatch ==
    LET after(i, o) ==
            LET s == text[i].s
                w == RunLen(s, o + Len(W_Prologue) + 1, {" ", "\t"})
                same_line == o + Len(W_Prologue) + w < Len(s)
                rest == IF same_line THEN SubSeq(s, o + Len(W_Prologue) + w + 1, Len(s)) ELSE NextTitleLine(i)
            IN  (w >= 1 \/ ~same_line) /\ Len(rest) >= 2 /\ IsUpper(rest[1]) /\ IsLower(rest[2])
        hits == {p \in UNION {{text[i].at + o : o \in {x \in 0..(Len(text[i].s) - Len(W_Prologue)) :
                                   OccursAt(text[i].s, W_Prologue, x, FALSE) /\ after(i, x)}} :
                              i \in {l \in DOMAIN text : IsWritten(l)}} : TRUE}
    IN  LeastOffset(hits)

\* the offset of text_to_analyze for the match of the Prologue at offset prologue
OffsetOf(prologue) ==
    IF prologue >= 0 THEN prologue
    ELSE IF TextLen > SkippedWithoutPrologue THEN SkippedWithoutPrologue ELSE 0

\* len(text) - len(text_to_analyze)
AnalysisOffset == OffsetOf(PrologueMatch)

\* one of the patterns of _fallback_chapter_detection matches the stripped line
FallbackLine(ln) ==
    \/ \E word \in {W_Chapter, W_CHAPTER, W_Part} :
          /\ IsPrefix(word, ln, FALSE)
          /\ RunLen(ln, Len(word) + 1, {" ", "\t"}) >= 1
          /\ RunLen(ln, Len(word) + RunLen(ln, Len(word) + 1, {" ", "\t"}) + 1, DigitSet) >= 1
    \/ LET d == RunLen(ln, 1, DigitSet)
           w == RunLen(ln, d + 2, {" ", "\t"})
       IN  d >= 1 /\ d + 1 <= Len(ln) /\ ln[d + 1] = "." /\ w >= 1 /\ d + w + 2 <= Len(ln) /\ IsUpper(ln[d + w + 2])
    \/ IsPrefix(W_Prologue, ln, FALSE)
    \/ IsPrefix(W_Epilogue, ln, FALSE)

\* AIBookProcessor._fallback_chapter_detection(text), from line i on
RECURSIVE FallbackTitles(_)
FallbackTitles(i) ==
    IF i > Len(text) THEN <<>>
    ELSE (IF text[i].nw = 0 /\ FallbackLine(Strip(text[i].s)) THEN <<Strip(text[i].s)>> ELSE <<>>) \o FallbackTitles(i + 1)

fallback_chapter_detection ==
    LET all == FallbackTitles(1) IN SubSeq(all, 1, Min(Len(all), MaxFallbackChapters))

\* re.sub(r'^(Chapter\s+\d+[:\s]+|\d+[.\s]+)', '', chapter_title, flags=re.IGNORECASE).strip()
CoreTitle(t) ==
    LET w == RunLen(t, Len(W_Chapter) + 1, {" ", "\t"})
        d == RunLen(t, Len(W_Chapter) + w + 1, DigitSet)
        sep == RunLen(t, Len(W_Chapter) + w + d + 1, {":", " ", "\t"})
        n == RunLen(t, 1, DigitSet)
        dots == RunLen(t, n + 1, {".", " ", "\t"})
    IN  IF IsPrefix(W_Chapter, t, TRUE) /\ w >= 1 /\ d >= 1 /\ sep >= 1
        THEN Strip(SubSeq(t, Len(W_Chapter) + w + d + sep + 1, Len(t)))
        ELSE IF n >= 1 /\ dots >= 1 THEN Strip(SubSeq(t, n + dots + 1, Len(t)))
        ELSE Strip(t)

\* the first digits of a title, <<>> if it has none
FirstNumber(t) ==
    LET starts == {i \in DOMAIN t : IsDigit(t[i])} IN
    IF starts = {} THEN <<>>
    ELSE LET i == CHOOSE s \in starts : \A o \in starts : s <= o IN SubSeq(t, i, i + RunLen(t, i, DigitSet) - 1)

\* strategy 3: the first of rf'Chapter\s+{num}[:\s]', rf'CHAPTER\s+{num}[:\s]' and
\* rf'^{num}[.\s]+' (re.MULTILINE) that matches from offset from on, within a line
NumberPatternFind(num, from) ==
    LET word(i, o, w) ==
            LET s == text[i].s
                sp == RunLen(s, o + Len(w) + 1, {" ", "\t"})
                e == o + Len(w) + sp + Len(num)
            IN  /\ OccursAt(s, w, o, FALSE)
                /\ sp >= 1
                /\ e <= Len(s)
                /\ SubSeq(s, o + Len(w) + sp + 1, e) = num
                /\ (e = Len(s) \/ s[e + 1] \in {":", " ", "\t"})
        first(S) == IF S = {} THEN -1 ELSE CHOOSE p \in S : \A o \in S : p <= o
        by_word(w) == first({p \in UNION {{text[i].at + o : o \in {x \in 0..(Len(text[i].s) - Len(w)) : word(i, x, w)}} :
                                          i \in {l \in DOMAIN text : IsWritten(l)}} : p >= from})
        by_line == first({text[i].at : i \in {l \in DOMAIN text :
                              /\ IsWritten(l)
                              /\ text[l].at >= from
                              /\ IsPrefix(num, text[l].s, FALSE)
                              /\ (Len(text[l].s) = Len(num) \/ text[l].s[Len(num) + 1] \in {".", " ", "\t"})}})
    IN  IF by_word(W_Chapter) >= 0 THEN by_word(W_Chapter)
        ELSE IF by_word(W_CHAPTER) >= 0 THEN by_word(W_CHAPTER)
        ELSE by_line

\* the position in the text of a title the model returned, -1 if no strategy finds it
\* the result of the first of the three strategies that finds the title
FirstPosition(exact, core, by_number) ==
    IF exact >= 0 THEN exact ELSE IF core >= 0 THEN core ELSE by_number

\* the three strategies on text_to_analyze, which starts at offset from of the text
PositionFrom(t, from) ==
    FirstPosition(FindFrom(t, from, TRUE),
                  IF CoreTitle(t) # <<>> THEN FindFrom(CoreTitle(t), from, TRUE) ELSE -1,
                  IF FindInLine(t, W_Chapter, 0, TRUE) # -1 /\ FirstNumber(t) # <<>>
                  THEN NumberPatternFind(FirstNumber(t), from) ELSE -1)

AITitlePosition(t) == PositionFrom(t, AnalysisOffset)

\* if position >= 0: chapter_data.append({'title': chapter_title, 'position': position})
ChapterDatum(name, p) == IF p >= 0 THEN <<[title |-> name, position |-> p]>> ELSE <<>>

RECURSIVE AIChapterData(_)
AIChapterData(all_chapters) ==
    IF all_chapters = <<>> THEN <<>>
    ELSE ChapterDatum(all_chapters[1], AITitlePosition(all_chapters[1])) \o AIChapterData(Tail(all_chapters))

\* the loop that assigns the numbers: regular_chapter_num is the next regular number
RECURSIVE AssignNumbers(_, _)
AssignNumbers(chapter_data, regular_chapter_num) ==
    IF chapter_data = <<>> THEN <<>>
    ELSE LET t == chapter_data[1].title
             special == FindInLine(t, W_Prologue, 0, TRUE) # -1 \/ FindInLine(t, W_Epilogue, 0, TRUE) # -1
             chapter_num == IF FindInLine(t, W_Prologue, 0, TRUE) # -1 THEN W_00
                            ELSE IF FindInLine(t, W_Epilogue, 0, TRUE) # -1 THEN W_900
                            ELSE Format02(regular_chapter_num)
         IN  <<[number |-> chapter_num, title |-> t, position |-> chapter_data[1].position]>>
                 \o AssignNumbers(Tail(chapter_data), IF special THEN regular_chapter_num ELSE regular_chapter_num + 1)

\* the lists of titles the language model answers with, over all chunks; the empty
\* list also stands for a failed call
AIAnswers == {
    <<>>,
    <<W_Prologue, <<"A", "l", "p", "h", "a">>, <<"B", "e", "t", "a", " ", "R", "a", "y">>, W_Epilogue>>,
    <<<<"C", "h", "a", "p", "t", "e", "r", " ", "1", ":", " ", "O", "m", "e", "g", "a">>, W_Epilogue, <<"1", ".", " ", "A", "l", "p", "h", "a">> >>}

\* AIBookProcessor.detect_chapters_with_ai
detect_chapters_with_ai ==
    /\ pc = "init"
    /\ pc' = "v9"
    /\ \E answer \in AIAnswers :
          chapter_positions' = SortByPosition(AIChapterData(IF answer = <<>> THEN fallback_chapter_detection ELSE answer))
    /\ chapters' = AssignNumbers(chapter_positions', 1)
    /\ UNCHANGED <<title, normalized, validation, tracker, moduleVars, text, min_chapter_length, toc_chapters, hybridVars>>

(***************************************************************************)
(* Specification of the splitters: one book, split once by one splitter    *)
(***************************************************************************)
Init ==
    /\ pc = "init"
    /\ title = <<>>
    /\ normalized = <<>>
    /\ text \in Books
    /\ min_chapter_length = DefaultMinChapterLength
    /\ toc_chapters = <<>>
    /\ chapter_positions = <<>>
    /\ chapters = <<>>
    /\ user_chapter_list = <<>>
    /\ extraction_method = "none"
    /\ readable = {}
    /\ located_chapters = <<>>
    /\ validated_chapters = <<>>
    /\ result = NoResult
    /\ validation = NoValidation
    /\ tracker = <<>>
    /\ IdleModules

Next == split_chapters \/ split_into_chapters \/ extract_chapters \/ split_chapters_simple \/ detect_chapters_with_ai

Spec == Init /\ [][Next]_vars

(***************************************************************************)
(* Properties of the splitters                                             *)
(***************************************************************************)

\* the offset where the content of a returned chapter starts: the first character
\* of its span that is no white space
StartOfContent(lo, hi) == FirstNonSpace(lo, Min(hi, TextLen))

\* C1: every chapter that split_chapters of V7 or extract_chapters of the hybrid
\* splitter returns has its content start at or after the end of the table of
\* contents (toc_end for V7, _find_toc_end() for the hybrid splitter), for
\* numbered and for unnumbered entries alike
C1_TocExclusion ==
    /\ pc = "v7" =>
          \A i \in DOMAIN chapters : StartOfContent(chapters[i].start, chapters[i].end) >= toc_end
    /\ pc = "hybrid" =>
          \A i \in DOMAIN chapters : StartOfContent(chapters[i].position, chapters[i].end) >= find_toc_end(1)

\* C2 as stated: the chapters split_chapters of V7 returns tile the text: each
\* ends where the next returned chapter starts, and the last ends at the end of
\* the document
C2_ReturnedSpansTile ==
    pc = "v7" /\ chapters # <<>> =>
        /\ \A i \in 1..(Len(chapters) - 1) : chapters[i].end = chapters[i + 1].start
        /\ chapters[Len(chapters)].end = TextLen

\* the index in chapter_positions of the located chapter a returned chapter was sliced from
LocatedIndex(c) ==
    {k \in DOMAIN chapter_positions :
        /\ chapter_positions[k].position = c.start
        /\ chapter_positions[k].title = c.title
        /\ c.end = (IF k < Len(chapter_positions) THEN chapter_positions[k + 1].position ELSE TextLen)}

\* C2 amended: each chapter split_chapters of V7 returns spans from the position
\* of a located chapter to the position of the next LOCATED chapter (the end of
\* the document after the last located one); the returned spans are in document
\* order and never overlap, and a gap between two consecutive returned chapters
\* is made of the spans of located chapters dropped as too short
C2_SpansOfLocated ==
    pc = "v7" =>
        /\ \A i \in DOMAIN chapters : LocatedIndex(chapters[i]) # {}
        /\ \A i \in 1..(Len(chapters) - 1) : chapters[i].end <= chapters[i + 1].start
        /\ \A i \in 1..(Len(chapters) - 1) :
              chapters[i].end < chapters[i + 1].start =>
                  \E k \in DOMAIN chapter_positions :
                      /\ chapter_positions[k].position = chapters[i].end
                      /\ StrippedLen(chapter_positions[k].position,
                                     IF k < Len(chapter_positions) THEN chapter_positions[k + 1].position ELSE TextLen)
                             < min_chapter_length
        /\ chapters # <<>> /\ chapters[Len(chapters)].end < TextLen =>
              \E k \in DOMAIN chapter_positions :
                  /\ chapter_positions[k].position = chapters[Len(chapters)].end
                  /\ StrippedLen(chapter_positions[k].position,
                                 IF k < Len(chapter_positions) THEN chapter_positions[k + 1].position ELSE TextLen)
                         < min_chapter_length

\* a located chapter between two returned ones was dropped, and left a gap
C2_Witness ==
    /\ pc = "v7"
    /\ \E i \in 1..(Len(chapters) - 1) : chapters[i].end < chapters[i + 1].start

\* C3: no chapter of fewer words than min_chapter_length is returned by
\* split_chapters of V7, by _locate_and_validate_chapters or by the user-list
\* path of the hybrid splitter
C3_MinimumWords ==
    /\ pc = "v7" => \A i \in DOMAIN chapters : chapters[i].words >= min_chapter_length
    /\ pc = "hybrid" =>
          /\ \A i \in DOMAIN located_chapters : located_chapters[i].word_count >= min_chapter_length
          /\ \A i \in DOMAIN chapters :
                chapters[i].source = "user_provided" => chapters[i].word_count >= min_chapter_length

\* the one chapter of the degenerate result: the whole text, titled "Full Book"
IsFullBook(c, start) == c.title = W_FullBook /\ start = 0 /\ c.end = TextLen

\* C4: split_chapters of V7, split_into_chapters of V11 and extract_chapters of
\* the hybrid splitter never return an empty list of chapters: when nothing is
\* located or nothing survives the filter the result is the one chapter
\* "Full Book" over the whole text, and the hybrid result is no error
C4_NeverEmpty ==
    /\ pc \in {"v7", "v11", "hybrid"} => chapters # <<>>
    /\ pc \in {"v7", "v11"} /\ chapter_positions = <<>> =>
          Len(chapters) = 1 /\ IsFullBook(chapters[1], chapters[1].start)
    /\ pc = "hybrid" /\ validated_chapters = <<>> /\ user_chapter_list = <<>> =>
          /\ Len(chapters) = 1 /\ IsFullBook(chapters[1], chapters[1].position)
          /\ result.status # "error"

\* the numbers the sentinel rule gives to a list of titles: "00" to a title with
\* "prologue", "900" to one with "epilogue", the next of 01, 02, ... to any other
RECURSIVE SentinelNumbers(_, _)
SentinelNumbers(titles, next) ==
    IF titles = <<>> THEN <<>>
    ELSE IF FindInLine(titles[1], W_Prologue, 0, TRUE) # -1 THEN <<W_00>> \o SentinelNumbers(Tail(titles), next)
    ELSE IF FindInLine(titles[1], W_Epilogue, 0, TRUE) # -1 THEN <<W_900>> \o SentinelNumbers(Tail(titles), next)
    ELSE <<Format02(next)>> \o SentinelNumbers(Tail(titles), next + 1)

TitlesOf(cs) == [i \in DOMAIN cs |-> cs[i].title]

\* C5: the chapters split_chapters_simple, detect_chapters_with_ai and
\* _locate_and_validate_chapters return are numbered by the sentinel rule: "00"
\* for a prologue, "900" for an epilogue, 01, 02, ... in document order for the
\* others (the numbers of the hybrid splitter are integers, compared by value)
C5_SentinelNumbers ==
    /\ pc \in {"simple", "v9"} /\ chapter_positions # <<>> =>
          [i \in DOMAIN chapters |-> chapters[i].number] = SentinelNumbers(TitlesOf(chapters), 1)
    /\ pc = "hybrid" =>
          [i \in DOMAIN located_chapters |-> located_chapters[i].number]
              = [i \in DOMAIN located_chapters |-> ToInt(SentinelNumbers(TitlesOf(located_chapters), 1)[i])]

\* the lines "PROLOGUE" after the table of contents, each followed by prose:
\* running page headers
HeaderLines ==
    {i \in DOMAIN text : /\ text[i].nw = 0
                         /\ text[i].s = L_PROLOGUE.s
                         /\ text[i].at >= toc_end
                         /\ i < Len(text)
                         /\ IsProse(i + 1)}

\* the lines "Prologue" after the table of contents that prose follows
GenuineLines ==
    {i \in DOMAIN text : /\ text[i].nw = 0
                         /\ text[i].s = W_Prologue
                         /\ text[i].at >= toc_end
                         /\ i < Len(text)
                         /\ IsProse(i + 1)}

\* the body of C6: several header lines "PROLOGUE", then the one genuine
\* "Prologue" section, and "Prologue" an unnumbered entry of the table of contents
HeadersThenPrologue ==
    /\ Cardinality(HeaderLines) >= 2
    /\ Cardinality(GenuineLines) = 1
    /\ \A h \in HeaderLines : \A g \in GenuineLines : h < g
    /\ \E k \in DOMAIN toc_chapters : toc_chapters[k].number = <<>> /\ toc_chapters[k].title_with_spaces = W_Prologue

\* C6: on a body with "PROLOGUE" page headers before the one genuine "Prologue"
\* section, find_chapter_in_body of V7 returns for the unnumbered entry
\* "Prologue" the position of the genuine section (its line, or the newline
\* that precedes it), and the position of no header
C6_HeaderRejection ==
    pc = "v7" /\ HeadersThenPrologue =>
        \A k \in DOMAIN toc_chapters :
            toc_chapters[k].number = <<>> /\ toc_chapters[k].title_with_spaces = W_Prologue =>
                \E g \in GenuineLines :
                    find_chapter_in_body(toc_chapters[k]) \in {text[g].at - 1, text[g].at}

\* C9: in the hybrid splitter the content of a located chapter ends at the
\* position of the next located chapter, only the last one reaches the end of
\* the text, and the contents of two returned chapters never overlap
C9_HybridSpans ==
    pc = "hybrid" =>
        /\ \A i \in DOMAIN located_chapters :
              located_chapters[i].end = (IF i < Len(located_chapters)
                                         THEN located_chapters[i + 1].position ELSE TextLen)
        /\ \A i \in DOMAIN chapters : \A j \in DOMAIN chapters :
              i < j => \/ chapters[i].end <= chapters[j].position
                       \/ chapters[j].end <= chapters[i].position

\* C10: every chapter the hybrid splitter located is in the result of
\* extract_chapters, validated or reported as of low confidence: none is dropped
\* (automatic path, no list of the user)
C10_LowScoreReported ==
    pc = "hybrid" /\ user_chapter_list = <<>> =>
        \A i \in DOMAIN located_chapters :
            \E j \in DOMAIN chapters :
                /\ chapters[j].title = located_chapters[i].title
                /\ chapters[j].position = located_chapters[i].position

\* the titles the value a splitter returns carries: split_chapters returns the list
\* of (title, text) and the dictionaries of extract_chapters hold, besides the
\* chapters, only the status, the count, the accuracy and a message of the count
ReturnedTitles == {chapters[i].title : i \in DOMAIN chapters}

\* C11: every entry of the TOC that is not located in the body is reported in the
\* value the splitter returns, next to the chapters of the entries it located
C11_UnlocatedReported ==
    /\ pc = "v7" =>
          \A k \in DOMAIN toc_chapters :
              find_chapter_in_body(toc_chapters[k]) = -1 => toc_chapters[k].display \in ReturnedTitles
    /\ pc = "hybrid" /\ user_chapter_list = <<>> =>
          \A k \in DOMAIN toc_chapters :
              find_chapter_in_text(toc_chapters[k].title, toc_chapters[k].raw_title, find_toc_end(1)) < 0
                  => toc_chapters[k].title \in ReturnedTitles

(***************************************************************************)
(* Specification of the quality score: one assembled chapter, scored once  *)
(***************************************************************************)
\* the texts the scored chapters are cut from
ScoreBooks == {Place(b, 0) : b \in {
    <<L_1Alpha, Prose(2100, 4, 30, TRUE), L_Epilogue, Prose(700, 4, 0, FALSE)>>,
    <<L_Prologue, Prose(8, 4, 1, TRUE), L_1Alpha, Prose(1100, 4, 12, TRUE)>>,
    <<L_PROLOGUE, Prose(20, 4, 2, TRUE), L_2, L_BetaRay, Prose(600, 4, 6, TRUE)>>}}

\* the titles of the scored chapters: of the TOC, short, empty, numeric, uppercase
\* up to and over 10 characters, and over 100 characters
ScoreTitles == {
    <<"1", " ", "A", "l", "p", "h", "a">>,
    W_Prologue,
    <<"H", "i">>,
    <<>>,
    <<"1", "2">>,
    <<"P", "A", "R", "T", " ", "I">>,
    <<"T", "H", "E", " ", "P", "R", "O", "L", "O", "G", "U", "E">>,
    [k \in 1..101 |-> "a"]}

\* Chapter(number, title, content, position, word_count, confidence, source) as
\* _locate_and_validate_chapters assembles it for the span from position to end
AssembledChapter(name, position, end) ==
    [number |-> 1, title |-> name, position |-> position, end |-> end,
     word_count |-> WordsIn(position, end), confidence |-> 85, source |-> "automatic"]

\* the spans of the text that start and end where a written line starts, or end
\* with the text
ScoreSpans ==
    {<<text[i].at, e>> : i \in {l \in DOMAIN text : IsWritten(l)},
                         e \in {text[j].at : j \in {l \in DOMAIN text : IsWritten(l)}} \cup {TextLen}}

InitScore ==
    /\ pc = "init"
    /\ title = <<>>
    /\ normalized = <<>>
    /\ text \in ScoreBooks
    /\ min_chapter_length = DefaultMinChapterLength
    /\ toc_chapters = <<>>
    /\ chapter_positions = <<>>
    /\ chapters \in {<<AssembledChapter(t, s[1], s[2])>> : t \in ScoreTitles, s \in {x \in ScoreSpans : x[1] < x[2]}}
    /\ user_chapter_list = <<>>
    /\ extraction_method = "none"
    /\ readable = {}
    /\ located_chapters = <<>>
    /\ validated_chapters = <<>>
    /\ result = NoResult
    /\ validation = NoValidation
    /\ tracker = <<>>
    /\ IdleModules

\* score = self._calculate_quality_score(chapter); chapter.confidence = score
ScoreChapter ==
    /\ pc = "init"
    /\ pc' = "score"
    /\ chapters' = <<[chapters[1] EXCEPT !.confidence = calculate_quality_score(chapters[1])]>>
    /\ UNCHANGED <<title, normalized, validation, tracker, moduleVars, text, min_chapter_length, toc_chapters, chapter_positions, hybridVars>>

NextScore == ScoreChapter

SpecScore == InitScore /\ [][NextScore]_vars

\* the tokens of the first 500 characters of the content of a chapter
SampleTokens(ch) ==
    IF ContentEnd(ch) <= ContentStart(ch) THEN <<>>
    ELSE WordsOfLines(LineOf(ContentStart(ch)), ContentStart(ch),
                      ContentStart(ch) + Min(RepetitionSample, ContentEnd(ch) - ContentStart(ch)))

\* some single token exceeds 30% of the tokens
TokenDominates(tokens) ==
    \E w \in Range(tokens) : 10 * Cardinality({i \in DOMAIN tokens : tokens[i] = w}) > 3 * Len(tokens)

\* the terms of the words, of the sentence terminators and of the position, in hundredths
StatedWordTerm(n) == IF n > 2000 THEN 30 ELSE IF n > 1000 THEN 20 ELSE IF n > 500 THEN 10 ELSE 0

StatedSentenceTerm(n) == IF n > 20 THEN 25 ELSE IF n > 10 THEN 15 ELSE IF n > 5 THEN 5 ELSE 0

StatedPositionTerm(p) == IF p # 0 THEN 15 ELSE 0

\* the title is empty, longer than 100 characters, purely numeric, or all-uppercase
\* and longer than 10 characters
StatedBadTitle(t) ==
    t = <<>> \/ Len(t) > 100 \/ IsDigitStr(Strip(t)) \/ (IsUpperStr(t) /\ Len(t) > 10)

\* the sum of the five terms for the credit of the title and of the repetition
StatedSum(ch, title_ok, no_repetition) ==
    StatedWordTerm(ch.word_count)
        + StatedSentenceTerm(SentencesIn(ch.position, ch.end))
        + (IF title_ok THEN 20 ELSE 0)
        + StatedPositionTerm(ch.position)
        + (IF no_repetition THEN 10 ELSE 0)

\* C12 as stated: the score of every chapter is the weighted sum of the five
\* terms, the title earning 0.20 unless it is empty, over 100 characters, numeric
\* or uppercase and over 10 characters, the content 0.10 unless a single token
\* exceeds 30% of the tokens of its first 500 characters; the score is in [0, 1]
C12_StatedScore ==
    pc = "score" =>
        /\ chapters[1].confidence
               = StatedSum(chapters[1], ~StatedBadTitle(chapters[1].title), ~TokenDominates(SampleTokens(chapters[1])))
        /\ chapters[1].confidence \in 0..100

\* C12 as the code has it: as stated, but a title of fewer than 3 characters earns
\* nothing, and neither does a content whose first 500 characters hold fewer than
\* 10 tokens
C12_ScoreAsCoded ==
    pc = "score" =>
        /\ chapters[1].confidence
               = StatedSum(chapters[1],
                           ~(StatedBadTitle(chapters[1].title) \/ Len(chapters[1].title) < 3),
                           ~(TokenDominates(SampleTokens(chapters[1])) \/ Len(SampleTokens(chapters[1])) < MinSampleWords))
        /\ chapters[1].confidence \in 0..100

\* a scored chapter whose sample holds fewer than 10 tokens, none of which dominates
C12_Witness ==
    /\ pc = "score"
    /\ Len(SampleTokens(chapters[1])) \in 1..(MinSampleWords - 1)
    /\ ~TokenDominates(SampleTokens(chapters[1]))
    /\ chapters[1].confidence > 0

(***************************************************************************)
(* Specification of the second run: a book split, and split again by the   *)
(* same splitter                                                           *)
(***************************************************************************)
\* SmartChapterSplitterV7.split_chapters called again on the same object: it reads
\* self.text, self.toc_end and self.min_chapter_length as the first call left them
split_chapters_again ==
    /\ pc = "v7"
    /\ pc' = "v7_again"
    /\ toc_chapters' = extract_toc_chapters(1)
    /\ chapter_positions' = SortByPosition(LocateAll(toc_chapters', 1))
    /\ chapters' = SliceChapters(chapter_positions', 1)
    /\ UNCHANGED <<title, normalized, validation, tracker, moduleVars, text, min_chapter_length, hybridVars>>

\* detect_chapters_simple and split_chapters_simple called again on the same text
split_chapters_simple_again ==
    /\ pc = "simple"
    /\ pc' = "simple_again"
    /\ chapter_positions' = detect_chapters_simple
    /\ chapters' = SplitChaptersSimple(chapter_positions')
    /\ UNCHANGED <<title, normalized, validation, tracker, moduleVars, text, min_chapter_length, toc_chapters, hybridVars>>

NextAgain == split_chapters \/ split_chapters_simple \/ split_chapters_again \/ split_chapters_simple_again

SpecAgain == Init /\ [][NextAgain]_vars

HasOrdinal(e) == e.number # <<>> /\ IsDigitStr(e.number)

\* C14: the entries the TOC extractor of V7 or of the hybrid splitter returns
\* never hold the same ordinal twice
C14_DistinctOrdinals ==
    pc \in {"v7", "hybrid"} =>
        \A i, j \in DOMAIN toc_chapters :
            i < j /\ HasOrdinal(toc_chapters[i]) /\ HasOrdinal(toc_chapters[j])
                => toc_chapters[i].number # toc_chapters[j].number

\* the prefix of the text of the given length holds no occurrence of "contents",
\* whatever the case of its letters
NoAnchorIn(window) == FindFrom(toc_indicators[1], 0, TRUE) \notin 0..(window - 1)

\* C15: when the prefix window of the text holds no "contents", the TOC extractor
\* of V7 and that of the hybrid splitter return no entry
C15_NoAnchorNoEntries ==
    /\ pc = "v7" /\ NoAnchorIn(toc_end) => toc_chapters = <<>>
    /\ pc = "hybrid" /\ extraction_method # "none" /\ NoAnchorIn(TocIndicatorLimit) => toc_chapters = <<>>

\* the libraries that yielded a usable text, one of more than 10000 characters
YieldedText == IF TextLen > MinExtractedLength THEN readable ELSE {}

\* C16: extract_chapters uses the first of pdfplumber, PyMuPDF and PyPDF2 that yields a
\* usable text; when none does, the result has status "error", error_type
\* "extraction_failed", no chapter and count 0, and no TOC entry was extracted and no
\* chapter located, validated or taken from the user's list
C16_ExtractionFailure ==
    pc = "hybrid" =>
        /\ YieldedText # {} =>
              /\ extraction_method \in YieldedText
              /\ \A k \in DOMAIN Methods :
                    Methods[k] = extraction_method => \A o \in 1..(k - 1) : Methods[o] \notin YieldedText
        /\ YieldedText = {} =>
              /\ extraction_method = "none"
              /\ result = [status |-> "error", error_type |-> "extraction_failed", count |-> 0,
                           accuracy |-> NoAccuracy, needs_review |-> TRUE]
              /\ chapters = <<>>
              /\ toc_chapters = <<>>
              /\ located_chapters = <<>>
              /\ validated_chapters = <<>>

\* no library read a book whose text has TOC entries, and a list of titles was supplied
C16_Witness ==
    /\ pc = "hybrid"
    /\ readable = {}
    /\ result.error_type = "extraction_failed"
    /\ extract_toc_v7_method # <<>>
    /\ user_chapter_list # <<>>

(***************************************************************************)
(* Books with running page headers after a chapter heading, for the header *)
(* filter of SmartChapterSplitterV7.find_chapter_in_body                   *)
(***************************************************************************)
\* a line of capitals longer than the 100 characters is_page_header is given
L_RunningHeader == Str([k \in 1..(HeaderWindow + 8) |-> L_TheBook.s[((k - 1) % Len(L_TheBook.s)) + 1]])

HeaderSections == {
    <<L_1, L_Alpha, Prose(700, 4, 30, TRUE)>>,
    <<L_1, L_Alpha, L_TheBook, Prose(700, 4, 30, TRUE)>>,
    <<L_1, L_Alpha, L_RunningHeader, Prose(700, 4, 30, TRUE)>>,
    <<L_2, L_BetaRay, Prose(700, 4, 30, TRUE)>>}

RECURSIVE HeaderBodies(_)
HeaderBodies(n) ==
    IF n = 0 THEN {<<>>}
    ELSE LET shorter == HeaderBodies(n - 1) IN shorter \cup {b \o s : b \in shorter, s \in HeaderSections}

HeaderBooks ==
    {Place(<<L_Contents, L_TocAlpha, L_TocBetaRay>> \o m \o b, 0) : m \in FrontMatters, b \in HeaderBodies(MaxSections)}

InitHeader ==
    /\ pc = "init"
    /\ title = <<>>
    /\ normalized = <<>>
    /\ text \in HeaderBooks
    /\ min_chapter_length = DefaultMinChapterLength
    /\ toc_chapters = <<>>
    /\ chapter_positions = <<>>
    /\ chapters = <<>>
    /\ user_chapter_list = <<>>
    /\ extraction_method = "none"
    /\ readable = {}
    /\ located_chapters = <<>>
    /\ validated_chapters = <<>>
    /\ result = NoResult
    /\ validation = NoValidation
    /\ tracker = <<>>
    /\ IdleModules

NextHeader == split_chapters

SpecHeader == InitHeader /\ [][NextHeader]_vars

\* the offsets of self.text[from:from+100] that hold a character of cs
WindowChars(from, cs) == {p \in from..(Min(from + HeaderWindow, TextLen) - 1) : CharAt(p) \in cs}

\* of the alphabetic characters of self.text[from:from+100], more than 0.7 are uppercase
UpperDominates(from) ==
    10 * Cardinality(WindowChars(from, UpperSet)) > 7 * Cardinality(WindowChars(from, UpperSet \cup LowerSet))

\* the matches of a strategy at or after toc_end whose following 100 characters are
\* not dominated by uppercase letters
AcceptedCandidates(e, strategy) ==
    {m \in {MatchOnLine(e, strategy, i, 0) : i \in DOMAIN text} :
        m # NoMatch /\ m.ok /\ m.start >= toc_end /\ ~UpperDominates(m.end)}

\* the start of the first of the candidates ms, -1 if there is none
FirstCandidate(ms) == IF ms = {} THEN -1 ELSE LeftmostMatch(ms).start

\* C17: for a numbered entry, find_chapter_in_body returns the position of the first
\* candidate match at or after toc_end that is not followed, within 100 characters, by
\* text of whose alphabetic characters more than 0.7 are uppercase
C17_HeaderRejection ==
    pc = "v7" => \A k \in DOMAIN toc_chapters :
        toc_chapters[k].number # <<>> =>
            find_chapter_in_body(toc_chapters[k])
                = FirstFound(FirstCandidate(AcceptedCandidates(toc_chapters[k], 1)),
                             FirstCandidate(AcceptedCandidates(toc_chapters[k], 2)),
                             FirstCandidate(AcceptedCandidates(toc_chapters[k], 3)))

(***************************************************************************)
(* HybridChapterSplitter._find_chapter_in_text and _fuzzy_find on their    *)
(* own: one call with a title, the raw title and a start position, on a    *)
(* short text                                                              *)
(***************************************************************************)
FindSections == {
    <<L_Alpha, Prose(8, 4, 1, TRUE)>>,
    <<L_PROLOGUE, Prose(8, 4, 1, TRUE)>>,
    <<L_Prologue, Prose(8, 4, 1, TRUE)>>,
    <<L_BetaRay, Prose(3, 4, 1, TRUE)>>,
    <<L_1, L_BetaRay>>}

RECURSIVE FindBodies(_)
FindBodies(n) ==
    IF n = 0 THEN {<<>>}
    ELSE LET shorter == FindBodies(n - 1) IN shorter \cup {b \o s : b \in shorter, s \in FindSections}

FindBooks == {Place(<<L_Contents>> \o b, 0) : b \in FindBodies(MaxSections)}

\* the pairs (title, raw_title) searched for
FindTitles == {
    <<L_Alpha.s, L_Alpha.s>>,
    <<W_Prologue, W_Prologue>>,
    <<<<"B", "e", "t", " ", "a", " ", "R", "a", "y">>, <<"B", "e", "t", "a", "R", "a", "y">> >>,
    <<<<"B", "e", "t", "a", " ", "R", "e", "y">>, <<"B", "e", "t", "a", " ", "R", "e", "y">> >>,
    <<<<"A", "l", "p", "h", "o">>, <<"A", "l", "p", "h", "o">> >>,
    <<<<"D", "e", "l", "t", "a">>, <<"D", "e", "l", "t", "a">> >>}

\* start_pos: the start of the text and the end of its first line
StartPositions == {0, Len(L_Contents.s) + 1}

InitFind ==
    /\ pc = "init"
    /\ title = <<>>
    /\ normalized = <<>>
    /\ text \in FindBooks
    /\ min_chapter_length = DefaultMinChapterLength
    /\ toc_chapters = <<>>
    /\ chapter_positions = <<>>
    /\ chapters = <<>>
    /\ user_chapter_list = <<>>
    /\ extraction_method = "none"
    /\ readable = {}
    /\ located_chapters = <<>>
    /\ validated_chapters = <<>>
    /\ result = NoResult
    /\ validation = NoValidation
    /\ tracker = <<>>
    /\ IdleModules

\* what a call found: chapter_positions holds its arguments and the position it returned
Found(t, raw_title, start_pos, position) ==
    <<[title |-> t, raw_title |-> raw_title, start_pos |-> start_pos, position |-> position]>>

\* one call of HybridChapterSplitter._find_chapter_in_text
FindChapterInText ==
    /\ pc = "init"
    /\ pc' = "find"
    /\ \E t \in FindTitles, start_pos \in StartPositions :
          chapter_positions' = Found(t[1], t[2], start_pos, find_chapter_in_text(t[1], t[2], start_pos))
    /\ UNCHANGED <<title, normalized, validation, tracker, moduleVars, text, min_chapter_length, toc_chapters, chapters, hybridVars>>

\* one call of HybridChapterSplitter._fuzzy_find with threshold 0.80
FuzzyFind ==
    /\ pc = "init"
    /\ pc' = "fuzzy"
    /\ \E t \in FindTitles, start_pos \in StartPositions :
          chapter_positions' = Found(t[1], t[2], start_pos, fuzzy_find(t[1], start_pos))
    /\ UNCHANGED <<title, normalized, validation, tracker, moduleVars, text, min_chapter_length, toc_chapters, chapters, hybridVars>>

NextFind == FindChapterInText \/ FuzzyFind

SpecFind == InitFind /\ [][NextFind]_vars

\* the positions of the four strategies for a call
ExactPosition(c) == FindFrom(c.title, c.start_pos, FALSE)

InsensitivePosition(c) == FindFrom(c.title, c.start_pos, TRUE)

CamelPosition(c) == VariationFind(generate_camel_case_variations(c.raw_title), 1, c.start_pos)

FuzzyPosition(c) == fuzzy_find(c.title, c.start_pos)

\* C18: _find_chapter_in_text returns the position of the first of exact match,
\* case-insensitive match, camelCase variants of the raw title and fuzzy similarity
\* that finds one, and -1 only if none of them does
C18_FirstStrategyWins ==
    pc = "find" => \A k \in DOMAIN chapter_positions :
        LET c == chapter_positions[k] IN
        /\ ExactPosition(c) >= 0 => c.position = ExactPosition(c)
        /\ ExactPosition(c) < 0 /\ InsensitivePosition(c) >= 0 => c.position = InsensitivePosition(c)
        /\ ExactPosition(c) < 0 /\ InsensitivePosition(c) < 0 /\ CamelPosition(c) >= 0
              => c.position = CamelPosition(c)
        /\ ExactPosition(c) < 0 /\ InsensitivePosition(c) < 0 /\ CamelPosition(c) < 0
              => c.position = FuzzyPosition(c)
        /\ c.position = -1
              => ExactPosition(c) < 0 /\ InsensitivePosition(c) < 0 /\ CamelPosition(c) < 0 /\ FuzzyPosition(c) < 0

\* the exact match wins although the case-insensitive match lies before it
C18_Witness ==
    /\ pc = "find"
    /\ chapter_positions[1].position = ExactPosition(chapter_positions[1])
    /\ InsensitivePosition(chapter_positions[1]) >= 0
    /\ InsensitivePosition(chapter_positions[1]) < chapter_positions[1].position

\* the characters that SequenceMatcher matches between the pattern of a call and the
\* window of its length at offset p
WindowMatches(c, p) ==
    MatchingChars(LowerStr(c.title), 1, Len(c.title), Chunk(p, Len(c.title)), 1, Len(c.title))

\* every window of the length of the title at or after start_pos
AllWindows(c) == c.start_pos..(TextLen - Len(c.title))

\* C19: when a window of the length of the title at or after start_pos has a ratio
\* above 0.80, _fuzzy_find returns a position, and no window has a higher ratio than
\* the window it returns
C19_BestWindowReturned ==
    pc = "fuzzy" => \A k \in DOMAIN chapter_positions :
        LET c == chapter_positions[k] IN
        (\E p \in AllWindows(c) : 5 * WindowMatches(c, p) > 4 * Len(c.title))
            => /\ c.position # -1
               /\ \A p \in AllWindows(c) : WindowMatches(c, p) <= WindowMatches(c, c.position)

(***************************************************************************)
(* AIBookProcessor.process of V8 (audiobook_processor_v8_universal_        *)
(* formats.py), step by step.  The documents have no blank line, no line   *)
(* with white space at its ends and no line that starts with "Chapter" or  *)
(* "Part", so of the patterns of split_chapters_to_files only the second   *)
(* (a number on a line and a title on the next) and the third (Prologue,   *)
(* Epilogue, ...) match in them.                                           *)
(***************************************************************************)
\* self.MIN_WORD_COUNT = 1000
MIN_WORD_COUNT == 1000

\* if abs(marker['position'] - pos) < 50
DuplicateDistance == 50

\* ([A-Z][^\n]{3,50}): the shortest and the longest title line of the second pattern
MinTitleLine == 4

MaxTitleLine == 51

V8Sections == {
    <<L_Prologue, Prose(400, 4, 30, TRUE)>>,
    <<L_Prologue, Prose(3, 4, 1, TRUE)>>,
    <<L_1, L_Alpha, Prose(400, 4, 30, TRUE)>>,
    <<L_Epilogue, Prose(400, 4, 30, TRUE)>>,
    <<Prose(400, 4, 30, TRUE)>>}

RECURSIVE V8Bodies(_)
V8Bodies(n) ==
    IF n = 0 THEN {<<>>}
    ELSE LET shorter == V8Bodies(n - 1) IN shorter \cup {b \o s : b \in shorter, s \in V8Sections}

V8Documents == {Place(<<L_TheBook>> \o b, 0) : b \in V8Bodies(MaxSections)}

\* the names of the third pattern: (Prologue|Epilogue|Preface|Introduction|Conclusion)
SectionNames == {
    W_Prologue, W_Epilogue,
    <<"P", "r", "e", "f", "a", "c", "e">>,
    <<"I", "n", "t", "r", "o", "d", "u", "c", "t", "i", "o", "n">>,
    <<"C", "o", "n", "c", "l", "u", "s", "i", "o", "n">>}

\* the group (Prologue|Epilogue|...) when line i starts with one of the names
\* (re.IGNORECASE), <<>> if it does not
SectionNameOn(i) ==
    IF IsProse(i) \/ ~\E n \in SectionNames : IsPrefix(n, text[i].s, TRUE) THEN <<>>
    ELSE LET n == CHOOSE n \in SectionNames : IsPrefix(n, text[i].s, TRUE) IN SubSeq(text[i].s, 1, Len(n))

\* ([1-9]|[1-4][0-9]|50)\s*\n: line i is a number from 1 to 50
IsChapterNumber(i) ==
    /\ ~IsProse(i)
    /\ IsDigitStr(text[i].s)
    /\ text[i].s[1] # "0"
    /\ Len(text[i].s) <= 2
    /\ Len(text[i].s) = 2 => text[i].s[1] \in {"1", "2", "3", "4"} \/ text[i].s = <<"5", "0">>

\* \s*([A-Z][^\n]{3,50})\s*\n with re.IGNORECASE: line j starts with a letter and has
\* 4 to 51 characters
IsTitleLine(j) ==
    /\ j # 0
    /\ text[j].len >= MinTitleLine
    /\ text[j].len <= MaxTitleLine
    /\ IsAlpha(CharAt(text[j].at))

\* match.start() of a match that begins with line i: (?:^|\n) takes the newline
\* before the line unless the match before it took that newline
MarkerStart(i, consumed) == IF i = 1 \/ consumed THEN text[i].at ELSE text[i].at - 1

\* the last line of the match of the k-th pattern that begins with line i, 0 if it
\* does not match there.  The third pattern takes the rest of the line as the title
\* and, when the line ends with the name, the next line
MarkerLast(k, i) ==
    IF k = 2 THEN IF IsChapterNumber(i) /\ IsTitleLine(NextNonBlank(i)) THEN NextNonBlank(i) ELSE 0
    ELSE IF k = 3
         THEN IF SectionNameOn(i) = <<>> THEN 0
              ELSE IF Len(SectionNameOn(i)) = Len(text[i].s) /\ NextNonBlank(i) # 0 THEN NextNonBlank(i)
              ELSE i
    ELSE 0

\* groups[0] of the match of the k-th pattern that begins with line i
MarkerNumber(k, i) == IF k = 2 THEN text[i].s ELSE SectionNameOn(i)

\* for match in re.finditer(pattern, text, re.IGNORECASE | re.MULTILINE), from line i on
RECURSIVE MarkersOfPattern(_, _, _)
MarkersOfPattern(k, i, consumed) ==
    IF i > Len(text) THEN <<>>
    ELSE IF MarkerLast(k, i) = 0 THEN MarkersOfPattern(k, i + 1, FALSE)
    ELSE <<[position |-> MarkerStart(i, consumed), number |-> MarkerNumber(k, i)]>>
             \o MarkersOfPattern(k, MarkerLast(k, i) + 1, TRUE)

\* the loop that removes the markers less than 50 characters after a marker kept
RECURSIVE UniqueMarkers(_, _, _)
UniqueMarkers(ms, i, unique) ==
    IF i > Len(ms) THEN unique
    ELSE IF \E u \in DOMAIN unique : ms[i].position - unique[u].position < DuplicateDistance
         THEN UniqueMarkers(ms, i + 1, unique)
         ELSE UniqueMarkers(ms, i + 1, Append(unique, ms[i]))

\* the chapter files written for the markers from the i-th on
RECURSIVE ChapterFiles(_, _)
ChapterFile(i, name, start_pos, end_pos) ==
    [number |-> i, title |-> name, start |-> start_pos, end |-> end_pos, word_count |-> WordsIn(start_pos, end_pos)]

ChapterFiles(ms, i) ==
    IF i > Len(ms) THEN <<>>
    ELSE <<ChapterFile(i, ms[i].number, ms[i].position, IF i < Len(ms) THEN ms[i + 1].position ELSE TextLen)>>
             \o ChapterFiles(ms, i + 1)

\* the files of split_chapters_to_files for the markers it keeps: full_text.txt when
\* there is none; the title of a file, which may take in the line after the name, is
\* left at the name
FilesFor(ms) ==
    IF ms = <<>> THEN <<ChapterFile(0, W_FullBook, 0, TextLen)>> ELSE ChapterFiles(ms, 1)

\* AIBookProcessor.split_chapters_to_files(text, chapter_structure)
SplitChaptersToFiles ==
    FilesFor(UniqueMarkers(SortByPosition(MarkersOfPattern(2, 1, FALSE) \o MarkersOfPattern(3, 1, FALSE)), 1, <<>>))

\* process() left with ContentValidationError
Rejected == [NoResult EXCEPT !.status = "error", !.error_type = "ContentValidationError"]

\* process() returned the analysis
Analysed(files) == [NoResult EXCEPT !.status = "success", !.count = Len(files)]

\* the calls of process on its progress tracker
Update(percentage) == [call |-> "update", percentage |-> percentage]

TrackerComplete == [call |-> "complete", percentage |-> 100]

TrackerError == [call |-> "error", percentage |-> 0]

\* the variables the V8 pipeline does not use
v8Unused == <<title, normalized, text, min_chapter_length, chapter_positions, user_chapter_list, extraction_method,
              readable, located_chapters, validated_chapters>>

InitV8 ==
    /\ pc = "init"
    /\ title = <<>>
    /\ normalized = <<>>
    /\ text \in V8Documents
    /\ min_chapter_length = DefaultMinChapterLength
    /\ toc_chapters = <<>>
    /\ chapter_positions = <<>>
    /\ chapters = <<>>
    /\ user_chapter_list = <<>>
    /\ extraction_method = "none"
    /\ readable = {}
    /\ located_chapters = <<>>
    /\ validated_chapters = <<>>
    /\ result = NoResult
    /\ validation = NoValidation
    /\ tracker = <<>>
    /\ IdleModules

\* step 1, extract_text_from_pdf: a file that cannot be read raises ContentValidationError
extract_text_from_pdf ==
    /\ pc = "init"
    /\ \E extracted \in BOOLEAN :
          /\ pc' = IF extracted THEN "extracted" ELSE "rejected"
          /\ result' = IF extracted THEN result ELSE Rejected
          /\ tracker' = tracker \o <<Update(5), IF extracted THEN Update(20) ELSE TrackerError>>
    /\ UNCHANGED <<v8Unused, moduleVars, validation, toc_chapters, chapters>>

\* the answers of the content classifier: a verdict of suitable, a verdict of
\* unsuitable, or no answer (the request fails or the answer is no JSON)
Responses == {"suitable", "unsuitable", "error"}

\* what ai_validate_content returns for a response, when it returns: the verdict, or
\* in the handler of Exception a dictionary with "is_suitable": True
ValidationOf(response) == [response |-> response, is_suitable |-> TRUE]

\* step 2, ai_validate_content: if not result.get('is_suitable', False): raise
\* ContentValidationError
ai_validate_content ==
    /\ pc = "extracted"
    /\ \E response \in Responses :
          /\ pc' = IF response = "unsuitable" THEN "rejected" ELSE "validated"
          /\ validation' = IF response = "unsuitable" THEN [response |-> response, is_suitable |-> FALSE]
                           ELSE ValidationOf(response)
          /\ result' = IF response = "unsuitable" THEN Rejected ELSE result
          /\ tracker' = tracker \o <<Update(25), IF response = "unsuitable" THEN TrackerError ELSE Update(40)>>
    /\ UNCHANGED <<v8Unused, moduleVars, toc_chapters, chapters>>

\* if word_count < self.MIN_WORD_COUNT
TooShort(word_count) == word_count < MIN_WORD_COUNT

\* step 3 of process: the word count validation
validate_word_count ==
    /\ pc = "validated"
    /\ pc' = IF TooShort(WordsIn(0, TextLen)) THEN "rejected" ELSE "counted"
    /\ result' = IF TooShort(WordsIn(0, TextLen)) THEN Rejected ELSE result
    /\ tracker' = IF TooShort(WordsIn(0, TextLen)) THEN Append(tracker, TrackerError) ELSE tracker
    /\ UNCHANGED <<v8Unused, moduleVars, validation, toc_chapters, chapters>>

\* step 4, ai_extract_metadata
ai_extract_metadata ==
    /\ pc = "counted"
    /\ pc' = "metadata"
    /\ tracker' = Append(tracker, Update(42))
    /\ UNCHANGED <<v8Unused, moduleVars, validation, toc_chapters, chapters, result>>

\* the most chapters in an answer of the chapter detector
MaxDetected == 2

\* step 5, ai_detect_chapters: the chapters of the structure the model answers, none
\* when the request fails
ai_detect_chapters ==
    /\ pc = "metadata"
    /\ pc' = "detected"
    /\ \E total_chapters \in 0..MaxDetected : toc_chapters' = [k \in 1..total_chapters |-> [number |-> k]]
    /\ tracker' = Append(tracker, Update(50))
    /\ UNCHANGED <<v8Unused, moduleVars, validation, chapters, result>>

\* step 5.5, split_chapters_to_files
split_chapters_to_files ==
    /\ pc = "detected"
    /\ pc' = "split"
    /\ chapters' = SplitChaptersToFiles
    /\ tracker' = tracker \o <<Update(60), Update(65)>>
    /\ UNCHANGED <<v8Unused, moduleVars, validation, toc_chapters, result>>

\* the tracker calls of steps 5.6 and 6 and of the saving of the analysis; the update
\* to 70 is made only if prepare_chapters_for_narration returned a result
FinalCalls(narration_prep_result) ==
    <<Update(66)>> \o (IF narration_prep_result THEN <<Update(70)>> ELSE <<>>)
        \o <<Update(60), Update(85), Update(90), TrackerComplete>>

\* the steps after the split: narration, voices, and the analysis saved and returned
save_analysis ==
    /\ pc = "split"
    /\ pc' = "done"
    /\ result' = Analysed(chapters)
    /\ \E narration_prep_result \in BOOLEAN : tracker' = tracker \o FinalCalls(narration_prep_result)
    /\ UNCHANGED <<v8Unused, moduleVars, validation, toc_chapters, chapters>>

NextV8 ==
    \/ extract_text_from_pdf
    \/ ai_validate_content
    \/ validate_word_count
    \/ ai_extract_metadata
    \/ ai_detect_chapters
    \/ split_chapters_to_files
    \/ save_analysis

SpecV8 == InitV8 /\ [][NextV8]_vars

\* C20: in process() of V8, chapters are detected and chapter files written only when
\* the content classifier answered with a verdict of suitable; after a verdict of
\* unsuitable, or with fewer words than the minimum, process() ends with
\* ContentValidationError and no chapter is detected and no chapter file written
C20_ChapteringGated ==
    /\ pc \in {"detected", "split", "done"} \/ toc_chapters # <<>> \/ chapters # <<>>
          => validation.response = "suitable" /\ ~TooShort(WordsIn(0, TextLen))
    /\ validation.response = "unsuitable" \/ (pc \notin {"init", "extracted", "validated"} /\ TooShort(WordsIn(0, TextLen)))
          => pc = "rejected" /\ result = Rejected /\ toc_chapters = <<>> /\ chapters = <<>>

\* extract_chapters took the chapters from the user's list
UserListTaken == user_chapter_list # <<>> /\ 5 * Len(validated_chapters) < 4 * Len(user_chapter_list)

\* where the title of the user's list after the i-th is found, -1 for the last title
NextUserPosition(i) ==
    IF i < Len(user_chapter_list)
    THEN find_chapter_in_text(user_chapter_list[i + 1], user_chapter_list[i + 1], 0)
    ELSE -1

\* C21: when a user list is supplied and fewer chapters were validated than 80% of
\* its length, extract_chapters returns one chapter per title of the list that is
\* found, numbered by its place in the list, that runs from the title to the next
\* title of the list (to the end of the text for the last title); otherwise it returns
\* the validated chapters
C21_UserListChapters ==
    pc = "hybrid" /\ extraction_method # "none" =>
        IF UserListTaken
        THEN /\ \A i \in DOMAIN user_chapter_list :
                    find_chapter_in_text(user_chapter_list[i], user_chapter_list[i], 0) >= 0
                        <=> \E k \in DOMAIN chapters : chapters[k].number = i
             /\ \A k \in DOMAIN chapters :
                    /\ chapters[k].number \in DOMAIN user_chapter_list
                    /\ chapters[k].title = user_chapter_list[chapters[k].number]
                    /\ chapters[k].position
                          = find_chapter_in_text(chapters[k].title, chapters[k].title, 0)
                    /\ chapters[k].number = Len(user_chapter_list) => chapters[k].end = TextLen
                    /\ NextUserPosition(chapters[k].number) > chapters[k].position
                          => chapters[k].end = NextUserPosition(chapters[k].number)
        ELSE chapters = validated_chapters

\* every marker the six patterns of detect_chapters_simple match, sorted by position
DetectedMarkers == SortByPosition(ScanPatterns(1))

\* kept is a thinning of detected: at least 500 apart, the earliest marker kept, and
\* every marker of detected less than 500 after a kept one
MarkersApart(detected, kept) ==
    /\ \A i \in DOMAIN kept : \E j \in DOMAIN detected : kept[i] = detected[j]
    /\ \A i \in 1..(Len(kept) - 1) : kept[i + 1].position - kept[i].position >= MinMarkerDistance
    /\ detected # <<>> => kept # <<>> /\ kept[1] = detected[1]
    /\ \A j \in DOMAIN detected : \E i \in DOMAIN kept :
          /\ detected[j].position >= kept[i].position
          /\ detected[j].position - kept[i].position < MinMarkerDistance

\* C22: the markers detect_chapters_simple returns are detected markers at least 500
\* characters apart, in increasing order of position; the earliest detected marker is
\* kept, and every detected marker that is not kept lies less than 500 characters
\* after a kept one
C22_MarkersApart == pc = "simple" => MarkersApart(DetectedMarkers, chapter_positions)

\* a marker between two kept ones was dropped
DroppedBetween(detected, kept) ==
    /\ Len(kept) >= 2
    /\ \E j \in DOMAIN detected :
          detected[j].position > kept[1].position /\ detected[j].position < kept[2].position

C22_Witness == pc = "simple" /\ DroppedBetween(DetectedMarkers, chapter_positions)

(***************************************************************************)
(* AdvancedEpilogueDetector of v13_2_modules.py.  A page is what the       *)
(* detector reads of it: its first non-blank lines, its number of words,   *)
(* and whether its text holds "about the author".                          *)
(***************************************************************************)

MaxPages == 3

MinEpilogueWords == 500

HeaderOccurrences == 3

Page(top, words, about) == [top |-> top, words |-> words, about |-> about]

Pages ==
    { Page(<<"Epilogue">>, 200, FALSE), Page(<<"Epilogue">>, 200, TRUE), Page(<<"Epilogue">>, 600, FALSE),
      Page(<<"The Epilogue">>, 600, FALSE), Page(<<"Text", "Epilogue">>, 200, FALSE),
      Page(<<"Text">>, 200, FALSE), Page(<<"Text">>, 600, FALSE), Page(<<>>, 0, FALSE) }

Documents == UNION { [1..n -> Pages] : n \in 1..MaxPages }

Outlines == { <<>>, <<[title |-> "Chapter 1", page |-> 1]>>, <<[title |-> "Epilogue", page |-> 2]>> }

\* what the chat completion of _phase3_ai_assisted produces: an exception, or the fields
\* has_epilogue and start_page of the JSON it answers (start_page 0 stands for null too)
Completions ==
    {[error |-> TRUE, has_epilogue |-> FALSE, start_page |-> 0]}
        \cup [error : {FALSE}, has_epilogue : BOOLEAN, start_page : 0..MaxPages]

NoCompletion == [error |-> TRUE, has_epilogue |-> FALSE, start_page |-> 0]

NoEpilogue == [page |-> 0, word_count |-> 0]

PageCount == Len(pdf.pages)

\* self.pdf[page_num], pages counted from 0
PageAt(page_num) == pdf.pages[page_num + 1]

get_first_meaningful_line(page_num) == IF PageAt(page_num).top = <<>> THEN "" ELSE PageAt(page_num).top[1]

\* re.search(r'\bepilogue\b', line, re.IGNORECASE) on the lines of Pages
HasEpilogueWord(line) == line \in {"Epilogue", "The Epilogue"}

\* some pattern of _phase2_pattern_based matches at the start of the line
MatchesEpiloguePattern(line) == line \in {"Epilogue"}

\* 'epilogue' in title.lower() on the titles of Outlines
IsEpilogueTitle(t) == t \in {"Epilogue"}

HeaderRange(page_num) == { i \in 0..(PageCount - 1) : i >= page_num - 5 /\ i < page_num + 5 }

is_running_header(page_num, line) ==
    Cardinality({ i \in HeaderRange(page_num) : \E k \in DOMAIN PageAt(i).top : k <= 3 /\ PageAt(i).top[k] = line })
        >= HeaderOccurrences

is_epilogue_start(page_num) ==
    /\ HasEpilogueWord(get_first_meaningful_line(page_num))
    /\ ~is_running_header(page_num, get_first_meaningful_line(page_num))

\* the page at which the loop of _extract_epilogue stops, and the words it has read
AboutPages(start_page) == { q \in start_page..(PageCount - 1) : PageAt(q).about }

LastExtracted(start_page) ==
    IF AboutPages(start_page) = {} THEN PageCount - 1
    ELSE CHOOSE q \in AboutPages(start_page) : \A r \in AboutPages(start_page) : q <= r

RECURSIVE WordsOfPages(_, _)
WordsOfPages(from, to) == IF from > to THEN 0 ELSE PageAt(from).words + WordsOfPages(from + 1, to)

ExtractedWords(start_page) == WordsOfPages(start_page, LastExtracted(start_page))

extract_epilogue(start_page) ==
    IF ExtractedWords(start_page) < MinEpilogueWords THEN NoEpilogue
    ELSE [page |-> start_page + 1, word_count |-> ExtractedWords(start_page)]

\* phase 1: the pages around the outline entry i that start an epilogue
TocRange(i) == { q \in 0..(PageCount - 1) : q >= pdf.toc[i].page - 10 /\ q < pdf.toc[i].page + 10 }

TocCandidates(i) == IF IsEpilogueTitle(pdf.toc[i].title) THEN { q \in TocRange(i) : is_epilogue_start(q) } ELSE {}

TocHits == { i \in DOMAIN pdf.toc : TocCandidates(i) # {} }

LeastOf(S) == CHOOSE q \in S : \A r \in S : q <= r

phase1_toc_based == IF TocHits = {} THEN NoEpilogue ELSE extract_epilogue(LeastOf(TocCandidates(LeastOf(TocHits))))

\* phase 2: the pages among the last 50 whose first line matches a pattern
PatternCandidates ==
    { q \in 0..(PageCount - 1) :
        /\ q >= PageCount - 50
        /\ MatchesEpiloguePattern(get_first_meaningful_line(q))
        /\ ~is_running_header(q, get_first_meaningful_line(q)) }

phase2_pattern_based == IF PatternCandidates = {} THEN NoEpilogue ELSE extract_epilogue(LeastOf(PatternCandidates))

\* phase 3: the page the model names, counted from the first of the last 10 pages
AIStartPage == (IF PageCount > 10 THEN PageCount - 10 ELSE 0) + openai.completion.start_page

AICandidates ==
    IF ~openai.completion.error /\ openai.completion.has_epilogue /\ openai.completion.start_page # 0
    THEN {AIStartPage} ELSE {}

phase3_ai_assisted == IF AICandidates = {} THEN NoEpilogue ELSE extract_epilogue(AIStartPage)

Detected ==
    IF phase1_toc_based # NoEpilogue THEN phase1_toc_based
    ELSE IF phase2_pattern_based # NoEpilogue THEN phase2_pattern_based
    ELSE IF openai.available THEN phase3_ai_assisted
    ELSE NoEpilogue

InitEpilogue ==
    /\ pc = "init"
    /\ title = <<>> /\ normalized = <<>>
    /\ text = <<>> /\ min_chapter_length = 0
    /\ toc_chapters = <<>> /\ chapter_positions = <<>> /\ chapters = <<>>
    /\ user_chapter_list = <<>> /\ extraction_method = "none" /\ readable = {}
    /\ located_chapters = <<>> /\ validated_chapters = <<>> /\ result = NoResult
    /\ validation = NoValidation
    /\ tracker = <<>>
    /\ pdf \in [pages : Documents, toc : Outlines]
    /\ openai \in [available : {FALSE}, completion : {NoCompletion}] \cup [available : {TRUE}, completion : Completions]
    /\ epilogue = <<>>
    /\ cache = <<>> /\ stored = <<>> /\ cached = <<>>
    /\ book_analysis = <<>> /\ futures = <<>> /\ completed = <<>> /\ voice_matches = <<>>
    /\ raw_excerpt = <<>> /\ model_response = <<>> /\ max_length = 0 /\ prepared_text = <<>>

detect ==
    /\ pc = "init"
    /\ pc' = "detect"
    /\ epilogue' = Detected
    /\ UNCHANGED <<bookVars, pdf, openai, cacheVars, voiceVars, sampleVars>>

NextEpilogue == detect

SpecEpilogue == InitEpilogue /\ [][NextEpilogue]_vars

\* the pages a phase that ran would hand to _extract_epilogue
CandidatePages ==
    UNION { TocCandidates(i) : i \in DOMAIN pdf.toc } \cup PatternCandidates
        \cup (IF openai.available THEN AICandidates ELSE {})

\* C23: detect returns the result of the first of phase 1, phase 2 and (when the client
\* is available) phase 3 that is an epilogue; every result has at least 500 words; and
\* it returns None only if no candidate start page of any phase yields an epilogue of
\* at least 500 words
C23_FirstPhaseWins ==
    pc = "detect" =>
        /\ epilogue = Detected
        /\ epilogue # NoEpilogue => epilogue.word_count >= MinEpilogueWords
        /\ epilogue = NoEpilogue => \A q \in CandidatePages : extract_epilogue(q) = NoEpilogue

(***************************************************************************)
(* AIAnalysisCache of v13_2_modules.py.  The content of a file is a        *)
(* sequence of blocks of half a megabyte; the directory of the cache is a  *)
(* function from cache keys to what the file of that key holds.            *)
(***************************************************************************)

\* 1024 * 1024 bytes, in blocks
MegaByte == 2

\* a file shorter than a megabyte, a file of a megabyte, and two files of two and a half
\* megabytes that differ in their middle block
Contents ==
    { <<"a">>, <<"b", "a">>, <<"a", "b", "a", "a", "b">>, <<"a", "b", "b", "a", "b">> }

\* dictionaries json.dump writes and json.load reads back unchanged
Analyses == {"analysis 1", "analysis 2"}

\* a dictionary json.dump raises on, leaving a file json.load cannot read
Unwritable == "unwritable"

Corrupted == "corrupted"

NoAnalysis == "None"

FirstBlocks(content) == SubSeq(content, 1, IF Len(content) < MegaByte THEN Len(content) ELSE MegaByte)

\* f.seek(-1024 * 1024, 2) raises on a file shorter than a megabyte
LastBlocks(content) ==
    IF Len(content) < MegaByte THEN <<>> ELSE SubSeq(content, Len(content) - MegaByte + 1, Len(content))

\* the SHA-256 digest is taken to be free of collisions: the key is the hashed bytes
get_cache_key(content) == FirstBlocks(content) \o LastBlocks(content)

Put(f, k, v) == [x \in DOMAIN f \cup {k} |-> IF x = k THEN v ELSE f[x]]

Drop(f, k) == [x \in DOMAIN f \ {k} |-> f[x]]

Written(analysis) == IF analysis = Unwritable THEN Corrupted ELSE analysis

InitCache ==
    /\ pc = "init"
    /\ title = <<>> /\ normalized = <<>>
    /\ text = <<>> /\ min_chapter_length = 0
    /\ toc_chapters = <<>> /\ chapter_positions = <<>> /\ chapters = <<>>
    /\ user_chapter_list = <<>> /\ extraction_method = "none" /\ readable = {}
    /\ located_chapters = <<>> /\ validated_chapters = <<>> /\ result = NoResult
    /\ validation = NoValidation
    /\ tracker = <<>>
    /\ IdleModules

\* AIAnalysisCache.set on a file of the given content
set ==
    \E content \in Contents, analysis \in Analyses \cup {Unwritable} :
        /\ pc' = "set"
        /\ cache' = Put(cache, get_cache_key(content), Written(analysis))
        /\ stored' = Put(stored, content, Written(analysis))
        /\ UNCHANGED <<bookVars, cached, epilogueVars, voiceVars, sampleVars>>

Hit(key) == key \in DOMAIN cache /\ cache[key] # Corrupted

\* AIAnalysisCache.get on a file of the given content
get ==
    \E content \in Contents :
        /\ pc' = "get"
        /\ cached' = [content |-> content,
                      returned |-> IF Hit(get_cache_key(content)) THEN cache[get_cache_key(content)] ELSE NoAnalysis]
        /\ cache' = IF get_cache_key(content) \in DOMAIN cache /\ ~Hit(get_cache_key(content))
                    THEN Drop(cache, get_cache_key(content)) ELSE cache
        /\ stored' = IF content \in DOMAIN stored /\ stored[content] = Corrupted THEN Drop(stored, content) ELSE stored
        /\ UNCHANGED <<bookVars, epilogueVars, voiceVars, sampleVars>>

NextCache == set \/ get

SpecCache == InitCache /\ [][NextCache]_vars

\* C24: get returns the analysis last saved for a file of the same content, and None
\* if none was saved for that content or the saved entry was corrupted
C24_KeyedByContent ==
    pc = "get" =>
        cached.returned = IF cached.content \in DOMAIN stored THEN stored[cached.content] ELSE NoAnalysis

(***************************************************************************)
(* ParallelVoiceMatcher of v13_2_modules.py: one task per voice profile in *)
(* a thread pool; the tasks start and finish in any order.                 *)
(***************************************************************************)

max_workers == 4

TopMatches == 4

Profile(name, gender, age_range, accent, genre, tone) ==
    [name |-> name, gender |-> gender, age_range |-> age_range, accent |-> accent, genre |-> genre, tone |-> tone]

get_voice_profiles ==
    << Profile("Marcus", "Male", "30-40", "American", "memoir", "serious"),
       Profile("Sophia", "Female", "25-35", "British", "fiction", "light"),
       Profile("David", "Male", "40-50", "American", "non-fiction", "serious"),
       Profile("Emma", "Female", "30-40", "International", "memoir", "dramatic") >>

BookAnalyses ==
    [genre : {"memoir", "fiction", "poetry"}, tone : {"serious", "dramatic"},
     target_audience : {"30-40", "adult"}, nationality : {"American", "Ukrainian"}]

Score(voice_profile, analysis) ==
    (IF voice_profile.genre = analysis.genre THEN 30 ELSE 0)
        + (IF voice_profile.tone = analysis.tone THEN 25 ELSE 0)
        + (IF voice_profile.age_range = analysis.target_audience THEN 20 ELSE 0)
        + (IF voice_profile.accent = analysis.nationality THEN 25 ELSE 0)

MatchOf(voice_profile, analysis) ==
    [name |-> voice_profile.name, gender |-> voice_profile.gender, age_range |-> voice_profile.age_range,
     accent |-> voice_profile.accent,
     match_percentage |-> IF Score(voice_profile, analysis) < 100 THEN Score(voice_profile, analysis) ELSE 100]

NoVoiceMatch == [name |-> "", gender |-> "", age_range |-> "", accent |-> "", match_percentage |-> 0]

Future(state, match) == [state |-> state, result |-> match]

\* the results in the order the tasks finished
GatheredAsCompleted == [i \in DOMAIN completed |-> futures[completed[i]].result]

\* executor.map gives the results in the order of the voice profiles
Gathered == [i \in DOMAIN futures |-> futures[i].result]

\* list.sort(key, reverse=True) is stable: m goes behind every match that is not smaller
InsertMatch(sorted, m) ==
    SelectSeq(sorted, LAMBDA x : x.match_percentage >= m.match_percentage) \o <<m>>
        \o SelectSeq(sorted, LAMBDA x : x.match_percentage < m.match_percentage)

RECURSIVE SortMatches(_, _, _)
SortMatches(ms, i, sorted) == IF i > Len(ms) THEN sorted ELSE SortMatches(ms, i + 1, InsertMatch(sorted, ms[i]))

FirstMatches(ms) == SubSeq(ms, 1, IF Len(ms) < TopMatches THEN Len(ms) ELSE TopMatches)

InitVoices ==
    /\ pc = "init"
    /\ title = <<>> /\ normalized = <<>>
    /\ text = <<>> /\ min_chapter_length = 0
    /\ toc_chapters = <<>> /\ chapter_positions = <<>> /\ chapters = <<>>
    /\ user_chapter_list = <<>> /\ extraction_method = "none" /\ readable = {}
    /\ located_chapters = <<>> /\ validated_chapters = <<>> /\ result = NoResult
    /\ validation = NoValidation
    /\ tracker = <<>>
    /\ pdf = <<>> /\ openai = <<>> /\ epilogue = <<>>
    /\ cache = <<>> /\ stored = <<>> /\ cached = <<>>
    /\ book_analysis \in BookAnalyses
    /\ futures = <<>> /\ completed = <<>> /\ voice_matches = <<>>
    /\ raw_excerpt = <<>> /\ model_response = <<>> /\ max_length = 0 /\ prepared_text = <<>>

\* match_voices hands one task per profile to the executor
executor_map ==
    /\ pc = "init"
    /\ pc' = "mapped"
    /\ futures' = [i \in DOMAIN get_voice_profiles |-> Future("pending", NoVoiceMatch)]
    /\ UNCHANGED <<bookVars, epilogueVars, cacheVars, sampleVars, book_analysis, completed, voice_matches>>

Running == { i \in DOMAIN futures : futures[i].state = "running" }

\* a free worker thread takes a task
start_task ==
    \E i \in DOMAIN futures :
        /\ pc = "mapped"
        /\ futures[i].state = "pending"
        /\ Cardinality(Running) < max_workers
        /\ futures' = [futures EXCEPT ![i] = Future("running", NoVoiceMatch)]
        /\ UNCHANGED <<pc, bookVars, epilogueVars, cacheVars, sampleVars, book_analysis, completed, voice_matches>>

\* a worker thread returns from _match_single_voice
match_single_voice ==
    \E i \in DOMAIN futures :
        /\ pc = "mapped"
        /\ futures[i].state = "running"
        /\ futures' = [futures EXCEPT ![i] = Future("done", MatchOf(get_voice_profiles[i], book_analysis))]
        /\ completed' = Append(completed, i)
        /\ UNCHANGED <<pc, bookVars, epilogueVars, cacheVars, sampleVars, book_analysis, voice_matches>>

\* all tasks are done: match_voices sorts the results and returns the first four
match_voices ==
    /\ pc = "mapped"
    /\ Len(completed) = Len(futures)
    /\ pc' = "matched"
    /\ voice_matches' = FirstMatches(SortMatches(Gathered, 1, <<>>))
    /\ UNCHANGED <<bookVars, epilogueVars, cacheVars, sampleVars, book_analysis, futures, completed>>

NextVoices == executor_map \/ start_task \/ match_single_voice \/ match_voices

SpecVoices == InitVoices /\ [][NextVoices]_vars

ProfileOf(m) == CHOOSE k \in DOMAIN get_voice_profiles : get_voice_profiles[k].name = m.name

\* C25: whatever the order in which the tasks ran, match_voices returns at most 4
\* matches, each computed from one voice profile of its own and between 0 and 100, in
\* non-increasing order of match_percentage with ties in the order of the profiles
C25_ScheduleIndependent ==
    pc = "matched" =>
        /\ Len(voice_matches) <= TopMatches
        /\ \A i \in DOMAIN voice_matches :
              /\ voice_matches[i].match_percentage \in 0..100
              /\ \E k \in DOMAIN get_voice_profiles : voice_matches[i] = MatchOf(get_voice_profiles[k], book_analysis)
        /\ \A i, j \in DOMAIN voice_matches :
              i < j =>
                  /\ ProfileOf(voice_matches[i]) # ProfileOf(voice_matches[j])
                  /\ voice_matches[i].match_percentage >= voice_matches[j].match_percentage
                  /\ voice_matches[i].match_percentage = voice_matches[j].match_percentage
                        => ProfileOf(voice_matches[i]) < ProfileOf(voice_matches[j])

\* two matches tie and the later profile's task finished first
C25_Witness ==
    /\ pc = "matched"
    /\ \E i, j \in DOMAIN completed :
          /\ i < j /\ completed[i] > completed[j]
          /\ futures[completed[i]].result.match_percentage = futures[completed[j]].result.match_percentage

(***************************************************************************)
(* prepare_voice_sample_text: the prompt holds raw_excerpt[:max_length];   *)
(* the answer of the model is cut to max_length, or the call fails and the *)
(* start of the raw excerpt is returned.                                   *)
(***************************************************************************)

MaxExcerpt == 2

MaxAnswer == 5

MaxLimit == 4

SampleChars == {"a", " "}

SampleStrings(n) == UNION { [1..k -> SampleChars] : k \in 0..n }

\* the model call raises, or answers with a content
ModelResponses == {[error |-> TRUE, content |-> <<>>]} \cup [error : {FALSE}, content : SampleStrings(MaxAnswer)]

\* s[:n] for n >= 0
FirstChars(s, n) == SubSeq(s, 1, IF n < Len(s) THEN n ELSE Len(s))

LastSpace(s) == IF \E i \in DOMAIN s : s[i] = " " THEN CHOOSE i \in DOMAIN s : s[i] = " " /\ \A j \in (i + 1)..Len(s) : s[j] # " " ELSE 0

\* s.rsplit(' ', 1)[0]
BeforeLastSpace(s) == IF LastSpace(s) = 0 THEN s ELSE SubSeq(s, 1, LastSpace(s) - 1)

Ellipsis == <<".", ".", ".">>

Truncated(answer, limit) ==
    IF Len(answer) > limit THEN BeforeLastSpace(FirstChars(answer, limit)) \o Ellipsis ELSE answer

PreparedText(excerpt, answer, limit) ==
    IF answer.error THEN FirstChars(excerpt, limit) ELSE Truncated(Strip(answer.content), limit)

InitSample ==
    /\ pc = "init"
    /\ title = <<>> /\ normalized = <<>>
    /\ text = <<>> /\ min_chapter_length = 0
    /\ toc_chapters = <<>> /\ chapter_positions = <<>> /\ chapters = <<>>
    /\ user_chapter_list = <<>> /\ extraction_method = "none" /\ readable = {}
    /\ located_chapters = <<>> /\ validated_chapters = <<>> /\ result = NoResult
    /\ validation = NoValidation
    /\ tracker = <<>>
    /\ pdf = <<>> /\ openai = <<>> /\ epilogue = <<>>
    /\ cache = <<>> /\ stored = <<>> /\ cached = <<>>
    /\ book_analysis = <<>> /\ futures = <<>> /\ completed = <<>> /\ voice_matches = <<>>
    /\ raw_excerpt \in SampleStrings(MaxExcerpt)
    /\ model_response \in ModelResponses
    /\ max_length \in 0..MaxLimit
    /\ prepared_text = <<>>

prepare_voice_sample_text ==
    /\ pc = "init"
    /\ pc' = "prepared"
    /\ prepared_text' = PreparedText(raw_excerpt, model_response, max_length)
    /\ UNCHANGED <<bookVars, epilogueVars, cacheVars, voiceVars, raw_excerpt, model_response, max_length>>

NextSample == prepare_voice_sample_text

SpecSample == InitSample /\ [][NextSample]_vars

\* C26: the text prepare_voice_sample_text returns is never longer than max_length,
\* whether the model answered or the call failed
C26_WithinMaxLength == pc = "prepared" => Len(prepared_text) <= max_length

\* the chapters returned, and what they are counted against
Returned == Len(chapters)

ExpectedChapters == Max(Max(Len(toc_chapters), Len(user_chapter_list)), 1)

StatusByAccuracy(n, d) ==
    /\ (result.status = "success" /\ ~result.needs_review) <=> 5 * n >= 4 * d
    /\ result.status = "needs_review" <=> (2 * n >= d /\ 5 * n < 4 * d)
    /\ (result.status = "error" /\ result.error_type = "low_accuracy") <=> 2 * n < d
    /\ result.status # "error" => result.accuracy = <<n, d>>
    /\ n <= d

\* C27: when extract_chapters has a text, its status follows from final_accuracy =
\* chapters returned / max(TOC entries, titles of the user's list, 1) alone: success
\* without review from 0.80, needs_review from 0.50 to below 0.80, error low_accuracy
\* below 0.50; count is the number of chapters returned and final_accuracy is at most 1
C27_StatusByAccuracy ==
    pc = "hybrid" /\ extraction_method # "none" =>
        /\ StatusByAccuracy(Returned, ExpectedChapters)
        /\ result.count = Returned

\* the user's list was taken and half of its titles, not four fifths, were found
C27_Witness ==
    /\ pc = "hybrid" /\ extraction_method # "none"
    /\ result.status = "needs_review"
    /\ Len(user_chapter_list) > Len(toc_chapters)

DistinctNumbers(cs) == \A i, j \in DOMAIN cs : i # j => cs[i].number # cs[j].number

\* C28: no two chapters split_chapters_simple returns, and no two chapters
\* detect_chapters_with_ai numbers, bear the same number
C28_DistinctNumbers ==
    pc \in {"simple", "v9"} => DistinctNumbers(chapters)


Updates == SelectSeq(tracker, LAMBDA c : c.call = "update")

TerminalCalls == { i \in DOMAIN tracker : tracker[i].call # "update" }

\* C29: in a run of process the percentages of the updates never decrease, and a run
\* that has ended made exactly one call of complete or error, after its last update
C29_ProgressMonotonic ==
    /\ \A i \in 1..(Len(Updates) - 1) : Updates[i].percentage <= Updates[i + 1].percentage
    /\ pc \in {"done", "rejected"} => TerminalCalls = {Len(tracker)}
    /\ pc \notin {"done", "rejected"} => TerminalCalls = {}
====
